---- MODULE Spec2Model ----
(***************************************************************************)
(* Model of the document-ingestion and identity-matching engine of the     *)
(* daily-order / karigar-mapping application: text normalisation, header   *)
(* matching, header-row detection, order parsing, mapping-workbook parsing *)
(* and the lookup / enrichment join.                                       *)
(*                                                                         *)
(* A JavaScript string is a sequence of characters; a character is a one-  *)
(* character TLA+ string, or a name for a character that has no printable  *)
(* form ("NBSP", "ZWSP", ...).  null / undefined is the value Null.        *)
(***************************************************************************)
EXTENDS Integers, Sequences, FiniteSets, TLC

VARIABLES
    pc,              \* position of the running operation
    sheetNames,      \* getMappingSheetReadOrder: the available sheet names
    readOrder,       \* getMappingSheetReadOrder: the order it returns
    nInput,          \* textNormalize: the raw text handed to the normalisers
    nOnce,           \* textNormalize: [cell, header, design] of the raw text
    nTwice,          \* textNormalize: [cell, header, design] of nOnce
    blob,            \* the persisted mapping blob (parsed JSON)
    mappingData,     \* decodeBlobToMapping's result
    mappingLookup,   \* useKarigarMappingLookup's Map, in insertion order
    orders,          \* the orders of the selected date
    enrichedOrders,  \* OrderListTab.enrichedOrders
    diagnostics,     \* OrderListTab.diagnostics
    savedBlob,       \* the backend's stored mapping blob, or Null
    saveMutation,    \* useSaveKarigarMappingWorkbook: the mutation's position
    savesDone,       \* the number of saves made so far
    workbookQuery,   \* the query cache entry ['karigarMappingWorkbook']
    decodeQueries,   \* the query cache entries ['decodedMappingLookup', url]
    headerParser,    \* header matching: the parser that reads the header row
    headerCells,     \* header matching: the cells of the header row
    resolvedColumns, \* header matching: the index found for each logical column
    fileName,        \* detectFileType: file.name
    mimeType,        \* detectFileType: file.type
    fileType,        \* detectFileType's result
    fileReader,      \* parseDailyOrders: what became of the FileReader
    karigarMappingWorkbook, \* backend: the stored mapping workbook
    lastSavedWorkbook,      \* backend: the argument of the last save that returned
    fetchedWorkbook, \* backend: the last answer of getKarigarMappingWorkbook
    storeCalls,      \* backend: the number of calls made so far
    dailyOrders,     \* backend: the orders stored for the date
    karigarAssignments,     \* backend: the assignments stored for the date
    orderIds,        \* useRemoveOrders: the ids to remove
    removeLocals,    \* useRemoveOrders: the locals of mutationFn
    initialOrders,   \* useRemoveOrders: the backend's orders and assignments at the start
    isReady,         \* DailyOrdersPage: the actor is ready
    uploadFile,      \* DailyOrdersPage: the file of the change event
    uploadedOrders,  \* DailyOrdersPage state
    parseWarnings,   \* DailyOrdersPage state
    parseError,      \* DailyOrdersPage state
    saveError,       \* DailyOrdersPage state
    isUploading,     \* DailyOrdersPage state
    workbook,        \* the uploaded mapping workbook: sheets of cell grids
    parseResults,    \* parseExcelMapping: the SheetParseResult of every sheet
    mappingResult,   \* parseExcelMapping's outcome
    rows,            \* the uploaded order file's cell grid
    headerRowIndex,  \* parseDailyOrders: the detected header row (0-based)
    orderResult      \* parseDailyOrders' outcome

vars == <<pc, sheetNames, readOrder, nInput, nOnce, nTwice, blob, mappingData, mappingLookup, orders,
          enrichedOrders, diagnostics, savedBlob, saveMutation, savesDone, workbookQuery,
          decodeQueries, workbook, parseResults, mappingResult, rows,
          headerRowIndex, orderResult,
          headerParser, headerCells, resolvedColumns, fileName, mimeType, fileType,
          fileReader, karigarMappingWorkbook, lastSavedWorkbook, fetchedWorkbook,
          storeCalls, dailyOrders, karigarAssignments, orderIds, removeLocals,
          initialOrders, isReady, uploadFile, uploadedOrders, parseWarnings,
          parseError, saveError, isUploading>>

readOrderVars == <<sheetNames, readOrder>>
normalizeVars == <<nInput, nOnce, nTwice>>
lookupVars    == <<blob, mappingData, mappingLookup, orders, enrichedOrders, diagnostics>>
cacheVars     == <<savedBlob, saveMutation, savesDone, workbookQuery, decodeQueries>>
headerVars    == <<headerParser, headerCells, resolvedColumns>>
fileVars      == <<fileName, mimeType, fileType, fileReader>>
storeVars     == <<karigarMappingWorkbook, lastSavedWorkbook, fetchedWorkbook, storeCalls>>
backendVars   == <<dailyOrders, karigarAssignments>>
removeVars    == <<orderIds, removeLocals, initialOrders>>
uploadVars    == <<isReady, uploadFile, uploadedOrders, parseWarnings, parseError, saveError,
                   isUploading>>
laterVars     == <<headerVars, fileVars, storeVars, backendVars, removeVars, uploadVars>>
mappingVars   == <<workbook, parseResults, mappingResult>>
orderVars     == <<rows, headerRowIndex, orderResult>>

\* The value of a variable that a specification does not use.
Idle == <<>>

HeadersIdle == headerParser = Idle /\ headerCells = Idle /\ resolvedColumns = Idle

FileIdle == fileName = Idle /\ mimeType = Idle /\ fileType = Idle /\ fileReader = Idle

StoreIdle ==
    /\ karigarMappingWorkbook = Idle /\ lastSavedWorkbook = Idle
    /\ fetchedWorkbook = Idle /\ storeCalls = Idle

BackendIdle == dailyOrders = Idle /\ karigarAssignments = Idle

RemoveIdle == orderIds = Idle /\ removeLocals = Idle /\ initialOrders = Idle

UploadIdle ==
    /\ isReady = Idle /\ uploadFile = Idle /\ uploadedOrders = Idle
    /\ parseWarnings = Idle /\ parseError = Idle /\ saveError = Idle /\ isUploading = Idle

LaterIdle ==
    HeadersIdle /\ FileIdle /\ StoreIdle /\ BackendIdle /\ RemoveIdle /\ UploadIdle

\* null / undefined: a value that is no string the alphabets can spell.
Null == <<"<null>">>

(***************************************************************************)
(* Characters and their classes (the ranges of the regular expressions).   *)
(***************************************************************************)

\* /[\u200B-\u200D\uFEFF]/ : zero-width space, non-joiner, joiner, BOM.
ZeroWidthChars == {"ZWSP", "ZWNJ", "ZWJ", "BOM"}

\* /[\u0000-\u0008\u000B-\u000C\u000E-\u001F\u007F-\u009F]/ : NUL, vertical
\* tab, form feed, DEL, NEL stand for the ranges.
ControlChars == {"NUL", "VT", "FF", "DEL", "NEL"}

\* /[\u2010-\u2015\u2212]/
UnicodeDashes == {"HYPHEN2010", "ENDASH", "EMDASH", "MINUS"}

\* /[\u2018\u2019]/ and /[\u2032\u2033]/ (both become the ASCII apostrophe)
UnicodeSingleQuotes == {"LSQUO", "RSQUO"}
UnicodePrimes == {"PRIME", "DPRIME"}

\* /[\u201C\u201D]/
UnicodeDoubleQuotes == {"LDQUO", "RDQUO"}

\* JavaScript's \s and the characters String.prototype.trim strips:
\* tab, LF, VT, FF, CR, space, NBSP, the Unicode spaces (EMSP stands for
\* U+1680, U+2000-200A, U+202F, U+205F, U+3000), U+2028/2029 and U+FEFF.
JsWhitespace == {"TAB", "LF", "VT", "FF", "CR", " ", "NBSP", "EMSP", "LSEP", "BOM"}

UpperLetters == <<"A","B","C","D","E","F","G","H","I","J","K","L","M",
                  "N","O","P","Q","R","S","T","U","V","W","X","Y","Z">>
LowerLetters == <<"a","b","c","d","e","f","g","h","i","j","k","l","m",
                  "n","o","p","q","r","s","t","u","v","w","x","y","z">>
Digits == {"0","1","2","3","4","5","6","7","8","9"}

Range(s) == {s[i] : i \in DOMAIN s}

\* JavaScript's \w without the unicode flag: [A-Za-z0-9_]
WordChars == Range(UpperLetters) \cup Range(LowerLetters) \cup Digits \cup {"_"}

\* String.prototype.toLowerCase on one character.  KELVIN (U+212A) is a
\* non-ASCII character whose lower case is the ASCII letter k.
LowerChar(c) ==
    IF c \in Range(UpperLetters)
      THEN LowerLetters[CHOOSE i \in DOMAIN UpperLetters : UpperLetters[i] = c]
      ELSE IF c = "KELVIN" THEN "k" ELSE c

toLowerCase(s) == [i \in DOMAIN s |-> LowerChar(s[i])]

\* s.replace(/[set]/g, '')
RemoveAll(s, set) == SelectSeq(s, LAMBDA c : c \notin set)

\* s.replace(/[set]/g, to)
ReplaceEach(s, set, to) == [i \in DOMAIN s |-> IF s[i] \in set THEN to ELSE s[i]]

\* s.replace(/\s+/g, ' ') : every maximal run of whitespace becomes one space.
RECURSIVE CollapseWhitespace(_)
CollapseWhitespace(s) ==
    IF s = <<>> THEN <<>>
    ELSE IF Head(s) \in JsWhitespace
      THEN IF Len(s) > 1 /\ s[2] \in JsWhitespace
             THEN CollapseWhitespace(Tail(s))
             ELSE <<" ">> \o CollapseWhitespace(Tail(s))
      ELSE <<Head(s)>> \o CollapseWhitespace(Tail(s))

RECURSIVE TrimStart(_)
TrimStart(s) ==
    IF s # <<>> /\ Head(s) \in JsWhitespace THEN TrimStart(Tail(s)) ELSE s

RECURSIVE TrimEnd(_)
TrimEnd(s) ==
    IF s # <<>> /\ s[Len(s)] \in JsWhitespace
      THEN TrimEnd(SubSeq(s, 1, Len(s) - 1))
      ELSE s

\* String.prototype.trim
trim(s) == TrimEnd(TrimStart(s))

\* JavaScript truthiness of a string-or-null value: !value holds of null,
\* undefined and ''.
Falsy(v) == v = Null \/ v = <<>>

\* String.prototype.includes
includes(s, sub) ==
    \E i \in 0..(Len(s) - Len(sub)) : SubSeq(s, i + 1, i + Len(sub)) = sub

(***************************************************************************)
(* utils/textNormalize.ts                                                  *)
(***************************************************************************)

\* A variant of normalizeCellValue that collapses and trims the whitespace
\* before it removes the invisible characters.
normalizeCellValueTrimFirst(value) ==
    IF Falsy(value) THEN <<>>
    ELSE LET n1 == trim(CollapseWhitespace(value))
             n2 == RemoveAll(n1, ZeroWidthChars)
             n3 == RemoveAll(n2, ControlChars)
             n4 == ReplaceEach(n3, {"NBSP"}, " ")
             n5 == ReplaceEach(n4, UnicodeDashes, "-")
             n6 == ReplaceEach(n5, UnicodeSingleQuotes, "'")
             n7 == ReplaceEach(n6, UnicodeDoubleQuotes, "\"")
         IN  ReplaceEach(n7, UnicodePrimes, "'")

normalizeCellValue(value) ==
    IF Falsy(value) THEN <<>>
    ELSE LET n1 == RemoveAll(value, ZeroWidthChars)
             n2 == RemoveAll(n1, ControlChars)
             n3 == ReplaceEach(n2, {"NBSP"}, " ")
             n4 == ReplaceEach(n3, UnicodeDashes, "-")
             n5 == ReplaceEach(n4, UnicodeSingleQuotes, "'")
             n6 == ReplaceEach(n5, UnicodeDoubleQuotes, "\"")
             n7 == ReplaceEach(n6, UnicodePrimes, "'")
             n8 == CollapseWhitespace(n7)
         IN  trim(n8)

normalizeHeader(header) ==
    IF Falsy(header) THEN <<>>
    ELSE LET n1 == normalizeCellValue(header)
             n2 == toLowerCase(n1)
             n3 == RemoveAll(n2, {c \in Range(n2) : c \notin WordChars \cup JsWhitespace})
         IN  trim(CollapseWhitespace(n3))

normalizeDesignCode(design) ==
    IF Falsy(design) THEN <<>>
    ELSE toLowerCase(normalizeCellValue(design))

\* matchesHeaderAlias(header, aliases): aliases is a sequence of strings.
matchesHeaderAlias(header, aliases) ==
    LET normalized == normalizeHeader(header)
    IN  IF normalized = <<>> THEN FALSE
        ELSE \E k \in DOMAIN aliases :
               LET normalizedAlias == normalizeHeader(aliases[k])
               IN  normalized = normalizedAlias \/ includes(normalized, normalizedAlias)

(***************************************************************************)
(* The normalisers applied to a text and again to their own results.       *)
(***************************************************************************)

\* The longest raw text handed to the normalisers.
MaxTextLen == 3

\* One character of every class the normalisers tell apart.
TextAlphabet ==
    {"A", "b", "1", "_", "-", ".", " ", "TAB", "NBSP", "ZWSP", "BOM", "NUL",
     "EMDASH", "LSQUO", "KELVIN"}

RECURSIVE TextsOfLen(_)
TextsOfLen(n) ==
    IF n = 0 THEN {<<>>}
    ELSE {<<c>> \o t : c \in TextAlphabet, t \in TextsOfLen(n - 1)}

Texts == UNION {TextsOfLen(n) : n \in 0..MaxTextLen} \cup {Null}

NormalizeInit ==
    /\ pc = "text"
    /\ nInput \in Texts
    /\ nOnce = Idle /\ nTwice = Idle
    /\ blob = Idle /\ mappingData = Idle /\ mappingLookup = Idle
    /\ orders = Idle /\ enrichedOrders = Idle /\ diagnostics = Idle
    /\ sheetNames = Idle /\ readOrder = Idle
    /\ workbook = Idle /\ parseResults = Idle /\ mappingResult = Idle
    /\ rows = Idle /\ headerRowIndex = Idle /\ orderResult = Idle
    /\ savedBlob = Idle /\ saveMutation = Idle /\ savesDone = Idle
    /\ workbookQuery = Idle /\ decodeQueries = Idle
    /\ LaterIdle

NormalizeOnce ==
    /\ pc = "text"
    /\ nOnce' = [cell   |-> normalizeCellValue(nInput),
                 header |-> normalizeHeader(nInput),
                 design |-> normalizeDesignCode(nInput)]
    /\ pc' = "normalized"
    /\ UNCHANGED <<cacheVars, laterVars, readOrderVars, nInput, nTwice, lookupVars, mappingVars, orderVars>>

NormalizeAgain ==
    /\ pc = "normalized"
    /\ nTwice' = [cell   |-> normalizeCellValue(nOnce.cell),
                  header |-> normalizeHeader(nOnce.header),
                  design |-> normalizeDesignCode(nOnce.design)]
    /\ pc' = "renormalized"
    /\ UNCHANGED <<cacheVars, laterVars, readOrderVars, nInput, nOnce, lookupVars, mappingVars, orderVars>>

NormalizeNext == NormalizeOnce \/ NormalizeAgain

SpecNormalize == NormalizeInit /\ [][NormalizeNext]_vars

\* C3: each of normalizeCellValue, normalizeHeader and normalizeDesignCode is
\* idempotent (applying it to its own result changes nothing), and each
\* returns the empty string for a null or empty input.
C3_NormalizersIdempotent ==
    /\ pc = "renormalized" => nTwice = nOnce
    /\ (pc # "text" /\ Falsy(nInput)) =>
          (nOnce.cell = <<>> /\ nOnce.header = <<>> /\ nOnce.design = <<>>)

\* A text with a zero-width character and whitespace has been normalised twice.
C3_Witness ==
    /\ pc = "renormalized"
    /\ nInput = <<" ", "ZWSP", "A">>
    /\ nOnce.cell = <<"A">>
    /\ nOnce.design = <<"a">>

(***************************************************************************)
(* JavaScript Map, in insertion order: a sequence of [key, value] records  *)
(* with distinct keys.                                                     *)
(***************************************************************************)

MapHas(m, k) == \E i \in DOMAIN m : m[i].key = k

\* Map.prototype.get: undefined (Null) for an absent key.
MapGet(m, k) ==
    IF MapHas(m, k) THEN m[CHOOSE i \in DOMAIN m : m[i].key = k].value ELSE Null

\* Map.prototype.set: an existing key keeps its position and takes the value.
MapSet(m, k, v) ==
    IF MapHas(m, k)
      THEN [i \in DOMAIN m |-> IF m[i].key = k THEN [key |-> k, value |-> v] ELSE m[i]]
      ELSE Append(m, [key |-> k, value |-> v])

MapKeys(m) == [i \in DOMAIN m |-> m[i].key]

(***************************************************************************)
(* features/karigar-mapping/getMappingSheetReadOrder.ts                    *)
(***************************************************************************)

\* The sheet names of the model, in the order String.prototype.localeCompare
\* gives them.
\* The sheet names of the model in the order of the collation localeCompare
\* applies.  CafeNFC and CafeNFD stand for the two spellings of "Cafe" with
\* an acute accent on the e, as U+00E9 and as e followed by U+0301: distinct
\* strings that are canonically equivalent, for which localeCompare gives 0.
CollationOrder == <<"1", "2", "3", "CafeNFC", "Data", "notes", "Sheet2">>

\* The same names in the order of their UTF-16 code units.
CodeUnitOrder == <<"1", "2", "3", "CafeNFD", "CafeNFC", "Data", "Sheet2", "notes">>

SheetNameUniverse == {"1", "2", "3", "Data", "Sheet2"}

CanonicalForm(a) == IF a = "CafeNFD" THEN "CafeNFC" ELSE a

CollationIndex(a) ==
    CHOOSE i \in DOMAIN CollationOrder : CollationOrder[i] = CanonicalForm(a)

\* a.localeCompare(b): negative, zero or positive.
localeCompare(a, b) == CollationIndex(a) - CollationIndex(b)

\* Array.prototype.sort((a, b) => a.localeCompare(b)), as an insertion sort
\* (stable, like the built-in).
RECURSIVE InsertSorted(_, _)
InsertSorted(sorted, x) ==
    IF sorted = <<>> THEN <<x>>
    ELSE IF localeCompare(x, Head(sorted)) < 0
      THEN <<x>> \o sorted
      ELSE <<Head(sorted)>> \o InsertSorted(Tail(sorted), x)

RECURSIVE SortByLocaleCompare(_)
SortByLocaleCompare(names) ==
    IF names = <<>> THEN <<>>
    ELSE InsertSorted(SortByLocaleCompare(SubSeq(names, 1, Len(names) - 1)),
                      names[Len(names)])

prioritySheets == <<"1", "3", "2">>

\* A variant that reads the priority sheets in numeric order.
getMappingSheetReadOrderNumeric(availableSheetNames) ==
    LET numeric   == <<"1", "2", "3">>
        result    == SelectSeq(numeric, LAMBDA p : p \in Range(availableSheetNames))
        remaining == SelectSeq(availableSheetNames, LAMBDA n : n \notin Range(numeric))
    IN  result \o SortByLocaleCompare(remaining)

getMappingSheetReadOrder(availableSheetNames) ==
    LET result    == SelectSeq(prioritySheets,
                               LAMBDA p : p \in Range(availableSheetNames))
        remaining == SelectSeq(availableSheetNames,
                               LAMBDA n : n \notin Range(prioritySheets))
    IN  result \o SortByLocaleCompare(remaining)

(***************************************************************************)
(* features/karigar-mapping/karigarMappingBlobCodec.ts                     *)
(*                                                                         *)
(* A JavaScript object with sheet-name keys is a sequence of               *)
(* [name, entries] records with distinct names, in the object's key order. *)
(***************************************************************************)

ObjectKeys(obj) == [i \in DOMAIN obj |-> obj[i].name]

ObjectGet(obj, name) ==
    obj[CHOOSE i \in DOMAIN obj : obj[i].name = name]

\* value || ''
OrEmpty(v) == IF Falsy(v) THEN <<>> ELSE v

\* value || undefined
OrUndefined(v) == IF Falsy(v) THEN Null ELSE v

\* A variant of decodeEntry that keeps a stored key when there is one.
decodeEntryKeepingStoredKey(entry) ==
    [design           |-> OrEmpty(entry.design),
     designNormalized |-> IF Falsy(entry.designNormalized)
                            THEN normalizeDesignCode(entry.design)
                            ELSE entry.designNormalized,
     karigar          |-> OrEmpty(entry.karigar),
     genericName      |-> OrUndefined(entry.genericName)]

decodeEntry(entry) ==
    [design           |-> OrEmpty(entry.design),
     designNormalized |-> normalizeDesignCode(entry.design),
     karigar          |-> OrEmpty(entry.karigar),
     genericName      |-> OrUndefined(entry.genericName)]

decodeBlobToMapping(data) ==
    [i \in DOMAIN data |->
        [name    |-> data[i].name,
         entries |-> [j \in DOMAIN data[i].entries |-> decodeEntry(data[i].entries[j])]]]

(***************************************************************************)
(* features/order-list/useKarigarMappingLookup.ts                          *)
(***************************************************************************)

\* The inner loop of the query function: the entries of one sheet, in order.
RECURSIVE AddSheetEntries(_, _)
AddSheetEntries(lookup, entries) ==
    IF entries = <<>> THEN lookup
    ELSE LET entry         == Head(entries)
             normalizedKey == normalizeDesignCode(entry.design)
             next == IF Falsy(normalizedKey) THEN lookup
                     ELSE IF ~MapHas(lookup, normalizedKey)
                       THEN MapSet(lookup, normalizedKey,
                                   [karigar     |-> entry.karigar,
                                    genericName |-> entry.genericName])
                       ELSE lookup
         IN  AddSheetEntries(next, Tail(entries))

\* The outer loop: the sheets in read order.
RECURSIVE AddSheets(_, _, _)
AddSheets(lookup, data, sheetsToRead) ==
    IF sheetsToRead = <<>> THEN lookup
    ELSE AddSheets(AddSheetEntries(lookup, ObjectGet(data, Head(sheetsToRead)).entries),
                   data, Tail(sheetsToRead))

\* A variant of the lookup builder in which a later entry overwrites an
\* earlier one with the same key.
buildLookupLastWins(data) ==
    LET RECURSIVE Put(_, _)
        Put(lookup, entries) ==
            IF entries = <<>> THEN lookup
            ELSE LET key == normalizeDesignCode(Head(entries).design)
                 IN  Put(IF Falsy(key) THEN lookup
                         ELSE MapSet(lookup, key,
                                     [karigar     |-> Head(entries).karigar,
                                      genericName |-> Head(entries).genericName]),
                         Tail(entries))
        RECURSIVE Walk(_, _)
        Walk(lookup, names) ==
            IF names = <<>> THEN lookup
            ELSE Walk(Put(lookup, ObjectGet(data, Head(names)).entries), Tail(names))
    IN  Walk(<<>>, getMappingSheetReadOrder(ObjectKeys(data)))

buildLookup(data) ==
    AddSheets(<<>>, data, getMappingSheetReadOrder(ObjectKeys(data)))

(***************************************************************************)
(* OrderListTab: enrichedOrders                                            *)
(***************************************************************************)

\* lookup.get(key)?.field : undefined when the key is absent.
OptionalField(lookup, key, field) ==
    IF MapHas(lookup, key) THEN MapGet(lookup, key)[field] ELSE Null

\* { ...order, genericName: g, karigar: k }
SpreadWith(order, g, k) ==
    [f \in (DOMAIN order) \cup {"genericName", "karigar"} |->
        IF f = "genericName" THEN g ELSE IF f = "karigar" THEN k ELSE order[f]]

\* A variant that looks the raw design text up, without normalising it.
enrichOrderRawKey(order, lookup) ==
    SpreadWith(order, OptionalField(lookup, order.design, "genericName"),
               OptionalField(lookup, order.design, "karigar"))

enrichOrder(order, lookup) ==
    LET normalizedDesign == normalizeDesignCode(order.design)
    IN  SpreadWith(order, OptionalField(lookup, normalizedDesign, "genericName"),
                   OptionalField(lookup, normalizedDesign, "karigar"))

(***************************************************************************)
(* OrderListTab: diagnostics                                               *)
(***************************************************************************)

\* The most keys a sample of the diagnostics holds: slice(0, 5).
sampleSize == 5

\* Set.prototype.add on a set kept in insertion order.
SetAdd(set, x) == IF \E i \in DOMAIN set : set[i] = x THEN set ELSE Append(set, x)

\* The forEach of lines 88-91 from order i on: the distinct non-empty
\* normalised design codes of the orders, in the order they are met.
RECURSIVE collectOrderDesignKeys(_, _, _)
collectOrderDesignKeys(enriched, i, keys) ==
    IF i > Len(enriched) THEN keys
    ELSE collectOrderDesignKeys(enriched, i + 1,
             IF normalizeDesignCode(enriched[i].design) # <<>>
               THEN SetAdd(keys, normalizeDesignCode(enriched[i].design))
               ELSE keys)

\* A variant of keySample that keeps every key.
keySampleWhole(keys) == keys

\* keys.slice(0, 5)
keySample(keys) ==
    IF Len(keys) <= sampleSize THEN keys ELSE SubSeq(keys, 1, sampleSize)

\* enrichedOrders.filter((o) => o.karigar).length
countMatchedOrders(enriched) == Len(SelectSeq(enriched, LAMBDA o : ~Falsy(o.karigar)))

\* The object the memo returns, for the counts and key lists it computed.
diagnosticsRecord(totalOrders, mappingEntryCount, matchedOrders, orderDesignKeys, mappingKeys) ==
    [totalOrders            |-> totalOrders,
     mappingEntries         |-> mappingEntryCount,
     matchedOrders          |-> matchedOrders,
     unmappedOrders         |-> totalOrders - matchedOrders,
     hasMappingButNoMatches |-> mappingEntryCount > 0 /\ matchedOrders = 0
                                    /\ totalOrders > 0,
     distinctOrderDesigns   |-> Len(orderDesignKeys),
     orderKeysSample        |-> keySample(orderDesignKeys),
     mappingSample          |-> keySample(mappingKeys)]

\* The diagnostics memo; mappingEntryCount is the size of the lookup.
computeDiagnostics(enriched, lookup) ==
    diagnosticsRecord(Len(enriched), Len(lookup), countMatchedOrders(enriched),
                      collectOrderDesignKeys(enriched, 1, <<>>), MapKeys(lookup))

(***************************************************************************)
(* The lookup pipeline: a persisted blob is decoded, flattened into the    *)
(* lookup, and the orders of the day are enriched from it.                 *)
(***************************************************************************)

\* The most sheets a persisted mapping blob holds.
MaxSheets == 2

Txt_AB_12     == <<"A","B","-","1","2">>
Txt_ab_12     == <<"a","b","-","1","2">>
Txt_AB_sp_12  == <<"A","B"," ","1","2">>
Txt_AB_dash12 == <<"A","B","ENDASH","1","2">>
Txt_Foo       == <<"F","o","o">>
Txt_Bar       == <<"B","a","r">>
Txt_Ring      == <<"R","i","n","g">>

\* A stored entry; its stored key was written by a normaliser that kept the
\* design text as it is.
BlobEntry(d, k, g) ==
    [design |-> d, designNormalized |-> d, karigar |-> k, genericName |-> g]

\* The entry lists a stored sheet may hold: single entries, entries whose
\* codes differ in case only, in separator only, and an entry without design.
SheetEntryChoices ==
    { <<>>,
      <<BlobEntry(Txt_AB_12, Txt_Foo, Txt_Ring)>>,
      <<BlobEntry(Txt_AB_12, Txt_Bar, Null)>>,
      <<BlobEntry(Txt_ab_12, Txt_Bar, Null)>>,
      <<BlobEntry(Txt_AB_sp_12, Txt_Foo, Txt_Ring)>>,
      <<BlobEntry(<<>>, Txt_Foo, Txt_Ring)>>,
      <<BlobEntry(Txt_ab_12, Txt_Foo, Txt_Ring), BlobEntry(Txt_AB_12, Txt_Bar, Null)>>,
      <<BlobEntry(Txt_AB_sp_12, Txt_Bar, Null), BlobEntry(Txt_AB_dash12, Txt_Foo, Txt_Ring)>> }

RECURSIVE BlobsOfLen(_)
BlobsOfLen(n) ==
    IF n = 0 THEN {<<>>}
    ELSE {Append(b, [name |-> nm, entries |-> es]) :
             b \in BlobsOfLen(n - 1), nm \in SheetNameUniverse, es \in SheetEntryChoices}

HasDistinctNames(obj) ==
    \A i, j \in DOMAIN obj : obj[i].name = obj[j].name => i = j

\* A mapping of ten designs K0 .. K9 in one sheet.
KeyDigits == <<"0", "1", "2", "3", "4", "5", "6", "7", "8", "9">>

LargeBlob ==
    <<[name |-> "1",
       entries |-> [i \in DOMAIN KeyDigits |-> BlobEntry(<<"K", KeyDigits[i]>>, Txt_Foo, Null)]]>>

\* A stored mapping whose entry has a design and a generic name but no karigar.
KarigarlessBlob ==
    <<[name |-> "1", entries |-> <<BlobEntry(Txt_AB_12, Null, Txt_Ring)>>]>>

\* Every key order is allowed; JavaScript's own (integer-like keys first) is
\* one of them.
Blobs ==
    {b \in UNION {BlobsOfLen(n) : n \in 0..MaxSheets} : HasDistinctNames(b)}
    \cup {LargeBlob, KarigarlessBlob}

DailyOrder(no, d) ==
    [orderNo |-> no, design |-> d, weight |-> <<>>, size |-> <<>>,
     quantity |-> <<>>, remarks |-> <<>>]

OrderLists ==
    { <<>>,
      <<DailyOrder(<<"1">>, Txt_ab_12)>>,
      <<DailyOrder(<<"1">>, Txt_AB_sp_12)>>,
      <<DailyOrder(<<"1">>, <<>>)>>,
      <<DailyOrder(<<"1">>, Txt_AB_dash12), DailyOrder(<<"2">>, <<"Z","9">>)>>,
      [i \in 1..5 |-> DailyOrder(<<KeyDigits[i]>>, <<"Z", KeyDigits[i]>>)],
      [i \in 1..6 |-> DailyOrder(<<KeyDigits[i]>>, <<"k", KeyDigits[i]>>)] }

LookupInit ==
    /\ pc = "blob"
    /\ blob \in Blobs
    /\ mappingData = Idle /\ mappingLookup = Idle
    /\ orders = Idle /\ enrichedOrders = Idle /\ diagnostics = Idle
    /\ sheetNames = Idle /\ readOrder = Idle
    /\ nInput = Idle /\ nOnce = Idle /\ nTwice = Idle
    /\ workbook = Idle /\ parseResults = Idle /\ mappingResult = Idle
    /\ rows = Idle /\ headerRowIndex = Idle /\ orderResult = Idle
    /\ savedBlob = Idle /\ saveMutation = Idle /\ savesDone = Idle
    /\ workbookQuery = Idle /\ decodeQueries = Idle
    /\ LaterIdle

\* queryFn, first half: decodeBlobToMapping(mappingBlob).
DecodeBlob ==
    /\ pc = "blob"
    /\ mappingData' = decodeBlobToMapping(blob)
    /\ pc' = "decoded"
    /\ UNCHANGED <<cacheVars, laterVars, readOrderVars, normalizeVars, blob, mappingLookup, orders, enrichedOrders,
                   diagnostics, mappingVars, orderVars>>

\* queryFn, second half: the lookup is filled from the decoded sheets.
BuildLookup ==
    /\ pc = "decoded"
    /\ mappingLookup' = buildLookup(mappingData)
    /\ pc' = "lookup"
    /\ UNCHANGED <<cacheVars, laterVars, readOrderVars, normalizeVars, blob, mappingData, orders, enrichedOrders,
                   diagnostics, mappingVars, orderVars>>

\* The enrichedOrders and diagnostics memos, for the orders the daily-orders
\* query returned.
EnrichOrders ==
    /\ pc = "lookup"
    /\ \E os \in OrderLists :
          \E enriched \in {[i \in DOMAIN os |-> enrichOrder(os[i], mappingLookup)]} :
              /\ orders' = os
              /\ enrichedOrders' = enriched
              /\ diagnostics' = computeDiagnostics(enriched, mappingLookup)
    /\ pc' = "enriched"
    /\ UNCHANGED <<cacheVars, laterVars, readOrderVars, normalizeVars, blob, mappingData, mappingLookup,
                   mappingVars, orderVars>>

LookupNext == DecodeBlob \/ BuildLookup \/ EnrichOrders

SpecLookup == LookupInit /\ [][LookupNext]_vars

\* The rank of a sheet in the documented priority: "1", "3", "2", then the
\* other sheets alphabetically.
SheetRank(name) ==
    CASE name = "1" -> 1
      [] name = "3" -> 2
      [] name = "2" -> 3
      [] OTHER      -> 3 + CollationIndex(name)

\* The positions <<sheet, entry>> of the decoded mapping.
DecodedPositions ==
    UNION {{<<i, j>> : j \in DOMAIN mappingData[i].entries} : i \in DOMAIN mappingData}

\* The positions that hold key k.
PositionsOfKey(k) ==
    {p \in DecodedPositions : mappingData[p[1]].entries[p[2]].designNormalized = k}

\* The position that comes first: in the sheet of the lowest rank, and first
\* within that sheet.
FirstPositionOfKey(k) ==
    CHOOSE p \in PositionsOfKey(k) :
        \A q \in PositionsOfKey(k) :
            \/ SheetRank(mappingData[p[1]].name) < SheetRank(mappingData[q[1]].name)
            \/ (p[1] = q[1] /\ p[2] <= q[2])

DecodedKeys ==
    {mappingData[p[1]].entries[p[2]].designNormalized : p \in DecodedPositions} \ {<<>>}

\* C1: the lookup is first-writer-wins over the sheets in priority order: a
\* key of the decoded mapping resolves to the entry of the sheet that comes
\* first in the order "1", "3", "2", then the other sheets alphabetically,
\* and the lookup holds no other key.
C1_LookupFirstWriterWinsInPriorityOrder ==
    pc \in {"lookup", "enriched"} =>
        /\ Range(MapKeys(mappingLookup)) = DecodedKeys
        /\ \A k \in DecodedKeys :
              LET p == FirstPositionOfKey(k)
                  e == mappingData[p[1]].entries[p[2]]
              IN  MapGet(mappingLookup, k) =
                     [karigar |-> e.karigar, genericName |-> e.genericName]

\* Sheet "2" maps ab-12 to Foo and sheet "1" maps AB-12 to Bar: Bar wins.
C1_Witness ==
    /\ pc = "lookup"
    /\ blob = << [name |-> "2", entries |-> <<BlobEntry(Txt_AB_12, Txt_Foo, Txt_Ring)>>],
                 [name |-> "1", entries |-> <<BlobEntry(Txt_ab_12, Txt_Bar, Null)>>] >>
    /\ MapGet(mappingLookup, Txt_ab_12).karigar = Txt_Bar

\* C2: enrichment is a join on the normalised design code: an order takes the
\* karigar and generic name of lookup[normalizeDesignCode(order.design)] when
\* the key is present and has both undefined otherwise; codes that differ in
\* letter case only match, codes that differ in a separator do not.
C2_EnrichmentJoinsOnNormalizedDesign ==
    pc = "enriched" =>
        /\ DOMAIN enrichedOrders = DOMAIN orders
        /\ \A i \in DOMAIN orders :
              LET k == normalizeDesignCode(orders[i].design)
              IN  /\ enrichedOrders[i].orderNo = orders[i].orderNo
                  /\ enrichedOrders[i].design = orders[i].design
                  /\ MapHas(mappingLookup, k) =>
                        /\ enrichedOrders[i].karigar = MapGet(mappingLookup, k).karigar
                        /\ enrichedOrders[i].genericName = MapGet(mappingLookup, k).genericName
                  /\ ~MapHas(mappingLookup, k) =>
                        /\ enrichedOrders[i].karigar = Null
                        /\ enrichedOrders[i].genericName = Null
        /\ (blob = <<[name |-> "1", entries |-> <<BlobEntry(Txt_AB_12, Txt_Foo, Txt_Ring)>>]>>) =>
              /\ orders = <<DailyOrder(<<"1">>, Txt_ab_12)>> =>
                    /\ enrichedOrders[1].karigar = Txt_Foo
                    /\ enrichedOrders[1].genericName = Txt_Ring
              /\ orders = <<DailyOrder(<<"1">>, Txt_AB_sp_12)>> =>
                    /\ enrichedOrders[1].karigar = Null
                    /\ enrichedOrders[1].genericName = Null

\* The mapping holds "AB-12" and the order "ab-12": the order is enriched.
C2_Witness ==
    /\ pc = "enriched"
    /\ blob = <<[name |-> "1", entries |-> <<BlobEntry(Txt_AB_12, Txt_Foo, Txt_Ring)>>]>>
    /\ orders = <<DailyOrder(<<"1">>, Txt_ab_12)>>
    /\ enrichedOrders[1].karigar = Txt_Foo

(***************************************************************************)
(* features/daily-orders/excel/parseDailyOrders.ts                         *)
(*                                                                         *)
(* A grid is a sequence of rows, a row a sequence of cells, a cell a       *)
(* string or Null.  Column indices are 0-based as in the source, -1 for    *)
(* "not found"; CellAt reads row[index].                                   *)
(***************************************************************************)

COLUMN_ALIASES ==
    [ orderNo  |-> << <<"o","r","d","e","r"," ","n","o">>,
                      <<"o","r","d","e","r"," ","n","o",".">>,
                      <<"o","r","d","e","r","n","o">>,
                      <<"o","r","d","e","r"," ","n","u","m","b","e","r">>,
                      <<"o","r","d","e","r"," ","#">>,
                      <<"o","r","d","e","r">>,
                      <<"s","r"," ","n","o">>,
                      <<"s","r"," ","n","o",".">>,
                      <<"s","e","r","i","a","l"," ","n","o">> >>,
      design   |-> << <<"d","e","s","i","g","n">>,
                      <<"d","e","s","i","g","n"," ","c","o","d","e">>,
                      <<"d","e","s","i","g","n","c","o","d","e">>,
                      <<"d","e","s","i","g","n"," ","n","o">>,
                      <<"d","e","s","i","g","n"," ","n","o",".">>,
                      <<"i","t","e","m">>,
                      <<"i","t","e","m"," ","c","o","d","e">> >>,
      weight   |-> << <<"w","e","i","g","h","t">>,
                      <<"w","t">>,
                      <<"w","t",".">>,
                      <<"n","e","t"," ","w","t">>,
                      <<"n","e","t"," ","w","t",".">>,
                      <<"n","e","t"," ","w","e","i","g","h","t">>,
                      <<"g","r","o","s","s"," ","w","t">>,
                      <<"g","r","o","s","s"," ","w","e","i","g","h","t">>,
                      <<"n","e","t","w","t">> >>,
      size     |-> << <<"s","i","z","e">>,
                      <<"s","z">>,
                      <<"s","z",".">>,
                      <<"d","i","m","e","n","s","i","o","n">>,
                      <<"d","i","m","e","n","s","i","o","n","s">>,
                      <<"d","i","m">> >>,
      quantity |-> << <<"q","u","a","n","t","i","t","y">>,
                      <<"q","t","y">>,
                      <<"q","t","y",".">>,
                      <<"q","u","a","n">>,
                      <<"q","u","a","n",".">>,
                      <<"c","o","u","n","t">>,
                      <<"p","i","e","c","e","s">>,
                      <<"p","c","s">>,
                      <<"n","o","s">> >>,
      remarks  |-> << <<"r","e","m","a","r","k","s">>,
                      <<"r","e","m","a","r","k">>,
                      <<"r","e","m","a","r","k","'","s">>,
                      <<"n","o","t","e">>,
                      <<"n","o","t","e","s">>,
                      <<"c","o","m","m","e","n","t">>,
                      <<"c","o","m","m","e","n","t","s">>,
                      <<"d","e","s","c","r","i","p","t","i","o","n">>,
                      <<"d","e","s","c">>,
                      <<"r","m","k","s">> >> ]

OrderFields == <<"orderNo", "design", "weight", "size", "quantity", "remarks">>

\* String(h || '')
StringOrEmpty(h) == IF Falsy(h) THEN <<>> ELSE h

\* cell != null && String(cell).trim()
NonEmptyCell(cell) == cell # Null /\ trim(cell) # <<>>

\* row[index]: undefined beyond the row's end (and for index -1).
CellAt(row, index) == IF index + 1 \in DOMAIN row THEN row[index + 1] ELSE Null

Txt_Report   == <<"R","e","p","o","r","t">>
Txt_SrNo     == <<"S","r"," ","N","o">>
Txt_OrderNo  == <<"O","r","d","e","r"," ","N","o">>
Txt_Design   == <<"D","e","s","i","g","n">>
Txt_Weight   == <<"W","e","i","g","h","t">>
Txt_Size     == <<"S","i","z","e">>
Txt_Qty      == <<"Q","t","y">>
Txt_Remarks  == <<"R","e","m","a","r","k","s">>
Txt_Colour   == <<"C","o","l","o","u","r">>
Txt_Date     == <<"D","a","t","e">>
Txt_Customer == <<"C","u","s","t","o","m","e","r">>
Txt_NetWt    == <<"N","e","t"," ","W","t">>
Txt_5g       == <<"5","g">>

\* The rows of the order grids: a title row, header rows with all, two or
\* three of the columns, header rows without the critical columns, and data
\* rows (complete, and with both critical cells blank); one header row has
\* the critical columns and a single optional one.
OrderRowUniverse ==
    { <<Txt_Report>>,
      <<Txt_SrNo, Txt_OrderNo, Txt_Design, Txt_Weight, Txt_Size, Txt_Qty, Txt_Remarks>>,
      <<Txt_OrderNo, Txt_Design>>,
      <<Txt_OrderNo, Txt_Design, Txt_Colour>>,
      <<Txt_OrderNo, Txt_Design, Txt_Weight>>,
      <<Txt_Date, Txt_Customer>>,
      <<Txt_NetWt, Txt_Colour, Txt_Date>>,
      <<Txt_Design, Txt_Weight, Txt_Size, Txt_Qty, Txt_Remarks>>,
      <<<<"1">>, Txt_AB_12, Txt_5g>>,
      <<<<" ">>, Null, Txt_5g>> }

OrderCellUniverse == UNION {Range(r) : r \in OrderRowUniverse}

\* matchesHeaderAlias(String(h || ''), COLUMN_ALIASES[field]), tabulated once
\* for the cells of the model.
headerMatchTable ==
    [h \in OrderCellUniverse |->
        [f \in Range(OrderFields) |->
            matchesHeaderAlias(StringOrEmpty(h), COLUMN_ALIASES[f])]]

CellMatchesField(h, field) == headerMatchTable[h][field]

\* row.some(h => matchesHeaderAlias(String(h || ''), COLUMN_ALIASES[field]))
foundColumn(row, field) == \E i \in DOMAIN row : CellMatchesField(row[i], field)

\* A variant of scoreHeaderRow without the bonus for the critical columns.
scoreHeaderRowNoBonus(row) ==
    LET nonEmpty == Cardinality({i \in DOMAIN row : NonEmptyCell(row[i])})
    IN  IF nonEmpty < 3 THEN 0
        ELSE Cardinality({f \in Range(OrderFields) : foundColumn(row, f)}) * 10

scoreHeaderRow(row) ==
    LET nonEmpty == Cardinality({i \in DOMAIN row : NonEmptyCell(row[i])})
    IN  IF nonEmpty < 3 THEN 0
        ELSE Cardinality({f \in Range(OrderFields) : foundColumn(row, f)}) * 10
             + (IF foundColumn(row, "orderNo") THEN 20 ELSE 0)
             + (IF foundColumn(row, "design") THEN 20 ELSE 0)

\* detectHeaderRow's default for maxRowsToScan.
maxRowsToScan == 20

Min(a, b) == IF a < b THEN a ELSE b

\* The loop of detectHeaderRow from row i on: [bestScore, bestRowIndex].
RECURSIVE ScanRows(_, _, _, _)
ScanRows(grid, i, rowsToCheck, best) ==
    IF i >= rowsToCheck THEN best
    ELSE LET score == scoreHeaderRow(grid[i + 1])
         IN  ScanRows(grid, i + 1, rowsToCheck,
                      IF score > best.bestScore
                        THEN [bestScore |-> score, bestRowIndex |-> i]
                        ELSE best)

\* A variant of detectHeaderRow that takes the last of the best rows.
detectHeaderRowLastBest(grid) ==
    LET rowsToCheck == Min(Len(grid), maxRowsToScan)
        top == CHOOSE v \in {scoreHeaderRow(grid[i]) : i \in 1..rowsToCheck} :
                   \A j \in 1..rowsToCheck : scoreHeaderRow(grid[j]) <= v
        last == CHOOSE i \in 1..rowsToCheck :
                   /\ scoreHeaderRow(grid[i]) = top
                   /\ \A j \in 1..rowsToCheck : scoreHeaderRow(grid[j]) = top => j <= i
    IN  IF top >= 20 THEN last - 1 ELSE 0

detectHeaderRow(grid) ==
    LET rowsToCheck == Min(Len(grid), maxRowsToScan)
        best == ScanRows(grid, 0, rowsToCheck, [bestScore |-> 0, bestRowIndex |-> 0])
    IN  IF best.bestScore >= 20 THEN best.bestRowIndex ELSE 0

\* headers.findIndex(h => matchesHeaderAlias(String(h || ''), aliases)), for
\* the aliases of one field.
findColumnIndex(headers, field) ==
    IF \E i \in DOMAIN headers : CellMatchesField(headers[i], field)
      THEN (CHOOSE i \in DOMAIN headers :
               /\ CellMatchesField(headers[i], field)
               /\ \A j \in 1..(i - 1) : ~CellMatchesField(headers[j], field)) - 1
      ELSE -1

\* A variant of extractCellValue that leaves the text as it is.
extractCellValueRaw(cell) == IF cell = Null THEN <<>> ELSE cell

extractCellValue(cell) == IF cell = Null THEN <<>> ELSE normalizeCellValue(cell)

\* Array.prototype.join
RECURSIVE Join(_, _)
Join(parts, sep) ==
    IF parts = <<>> THEN <<>>
    ELSE IF Len(parts) = 1 THEN parts[1]
    ELSE parts[1] \o sep \o Join(Tail(parts), sep)

CommaSpace == <<",", " ">>

Lbl_OrderNo  == <<"O","r","d","e","r"," ","N","o">>
Lbl_Design   == <<"D","e","s","i","g","n">>
Lbl_Weight   == <<"W","e","i","g","h","t">>
Lbl_Size     == <<"S","i","z","e">>
Lbl_Quantity == <<"Q","u","a","n","t","i","t","y">>
Lbl_Remarks  == <<"R","e","m","a","r","k","s">>
Lbl_None     == <<"(","n","o","n","e",")">>

\* headers.filter(h => h != null && String(h).trim()).map(h => String(h).trim())
detectedHeaderList(headers) ==
    LET kept == SelectSeq(headers, LAMBDA h : NonEmptyCell(h))
    IN  [i \in DOMAIN kept |-> trim(kept[i])]

\* A variant that lists both critical columns whenever one is missing.
missingCriticalColumnsBoth(columnIndices) == <<Lbl_OrderNo, Lbl_Design>>

missingCriticalColumns(columnIndices) ==
    (IF columnIndices.orderNo = -1 THEN <<Lbl_OrderNo>> ELSE <<>>)
    \o (IF columnIndices.design = -1 THEN <<Lbl_Design>> ELSE <<>>)

\* A variant of missingOptionalColumns that never lists Remarks.
missingOptionalColumnsNoRemarks(columnIndices) ==
    (IF columnIndices.weight = -1 THEN <<Lbl_Weight>> ELSE <<>>)
    \o (IF columnIndices.size = -1 THEN <<Lbl_Size>> ELSE <<>>)
    \o (IF columnIndices.quantity = -1 THEN <<Lbl_Quantity>> ELSE <<>>)

missingOptionalColumns(columnIndices) ==
    (IF columnIndices.weight = -1 THEN <<Lbl_Weight>> ELSE <<>>)
    \o (IF columnIndices.size = -1 THEN <<Lbl_Size>> ELSE <<>>)
    \o (IF columnIndices.quantity = -1 THEN <<Lbl_Quantity>> ELSE <<>>)
    \o (IF columnIndices.remarks = -1 THEN <<Lbl_Remarks>> ELSE <<>>)

\* The error of lines 246-252: the three values its text is built from.
MissingCriticalError(columnIndices, headers, headerRow) ==
    [kind            |-> "missing-critical-columns",
     missingCritical |-> Join(missingCriticalColumns(columnIndices), CommaSpace),
     headerRowNumber |-> headerRow + 1,
     detectedHeaders |-> LET joined == Join(detectedHeaderList(headers), CommaSpace)
                         IN  IF joined = <<>> THEN Lbl_None ELSE joined]

\* A variant of buildWarnings whose first warning carries the 0-based index.
buildWarningsZeroBased(columnIndices, headers, headerRow) ==
    LET missingOptional == missingOptionalColumns(columnIndices)
    IN  (IF headerRow > 0
           THEN <<[type |-> "non-first-header", headerRowIndex |-> headerRow,
                   skippedRows |-> <<1, headerRow>>]>>
           ELSE <<>>)
        \o (IF Len(missingOptional) > 0
              THEN <<[type |-> "missing-columns", missingColumns |-> missingOptional,
                      detectedHeaders |-> detectedHeaderList(headers),
                      headerRowIndex |-> headerRow + 1]>>
              ELSE <<>>)

buildWarnings(columnIndices, headers, headerRow) ==
    LET missingOptional == missingOptionalColumns(columnIndices)
    IN  (IF headerRow > 0
           THEN <<[type |-> "non-first-header", headerRowIndex |-> headerRow + 1,
                   skippedRows |-> <<1, headerRow>>]>>
           ELSE <<>>)
        \o (IF Len(missingOptional) > 0
              THEN <<[type |-> "missing-columns", missingColumns |-> missingOptional,
                      detectedHeaders |-> detectedHeaderList(headers),
                      headerRowIndex |-> headerRow + 1]>>
              ELSE <<>>)

parseOrderRow(row, columnIndices) ==
    [orderNo  |-> extractCellValue(CellAt(row, columnIndices.orderNo)),
     design   |-> extractCellValue(CellAt(row, columnIndices.design)),
     weight   |-> IF columnIndices.weight # -1
                    THEN extractCellValue(CellAt(row, columnIndices.weight)) ELSE <<>>,
     size     |-> IF columnIndices.size # -1
                    THEN extractCellValue(CellAt(row, columnIndices.size)) ELSE <<>>,
     quantity |-> IF columnIndices.quantity # -1
                    THEN extractCellValue(CellAt(row, columnIndices.quantity)) ELSE <<>>,
     remarks  |-> IF columnIndices.remarks # -1
                    THEN extractCellValue(CellAt(row, columnIndices.remarks)) ELSE <<>>]

\* reader.onload from the header detection on, for a non-empty grid whose
\* header row is headerRow.
parseDetected(grid, headerRow) ==
    LET headers       == grid[headerRow + 1]
        columnIndices == [f \in Range(OrderFields) |-> findColumnIndex(headers, f)]
    IN  IF columnIndices.orderNo = -1 \/ columnIndices.design = -1
          THEN [status |-> "rejected",
                error  |-> MissingCriticalError(columnIndices, headers, headerRow)]
          ELSE LET dataRows    == SubSeq(grid, headerRow + 2, Len(grid))
                   parsed      == [i \in DOMAIN dataRows |->
                                      parseOrderRow(dataRows[i], columnIndices)]
                   validOrders == SelectSeq(parsed,
                                      LAMBDA o : o.orderNo # <<>> \/ o.design # <<>>)
               IN  IF Len(validOrders) = 0
                     THEN [status |-> "rejected",
                           error  |-> [kind |-> "no-valid-orders"]]
                     ELSE [status   |-> "resolved",
                           orders   |-> validOrders,
                           warnings |-> buildWarnings(columnIndices, headers, headerRow)]

(***************************************************************************)
(* An order file is parsed: reader.onload of parseDailyOrders.              *)
(***************************************************************************)

\* The most rows an order grid holds after its leading title rows.
MaxBodyRows == 3

RECURSIVE OrderBodiesOfLen(_)
OrderBodiesOfLen(n) ==
    IF n = 0 THEN {<<>>}
    ELSE {Append(b, r) : b \in OrderBodiesOfLen(n - 1), r \in OrderRowUniverse}

\* Leading title rows: none, two, or as many as put the first or the second
\* row that follows them just beyond the rows the detector scans.
TitleRowCounts == {0, 2, maxRowsToScan - 1, maxRowsToScan}

TitleRows(k) == [i \in 1..k |-> <<Txt_Report>>]

OrderGrids ==
    {<<>>} \cup
    {TitleRows(k) \o b : k \in TitleRowCounts,
                         b \in UNION {OrderBodiesOfLen(n) : n \in 1..MaxBodyRows}}

OrderInit ==
    /\ pc = "file"
    /\ rows \in OrderGrids
    /\ headerRowIndex = Idle /\ orderResult = Idle
    /\ nInput = Idle /\ nOnce = Idle /\ nTwice = Idle
    /\ blob = Idle /\ mappingData = Idle /\ mappingLookup = Idle
    /\ orders = Idle /\ enrichedOrders = Idle /\ diagnostics = Idle
    /\ sheetNames = Idle /\ readOrder = Idle
    /\ workbook = Idle /\ parseResults = Idle /\ mappingResult = Idle
    /\ savedBlob = Idle /\ saveMutation = Idle /\ savesDone = Idle
    /\ workbookQuery = Idle /\ decodeQueries = Idle
    /\ LaterIdle

ParseDailyOrders ==
    /\ pc = "file"
    /\ IF Len(rows) = 0
         THEN /\ orderResult' = [status |-> "rejected", error |-> [kind |-> "file-empty"]]
              /\ UNCHANGED headerRowIndex
         ELSE /\ headerRowIndex' = detectHeaderRow(rows)
              /\ orderResult' = parseDetected(rows, detectHeaderRow(rows))
    /\ pc' = "parsed"
    /\ UNCHANGED <<cacheVars, laterVars, readOrderVars, normalizeVars, lookupVars, mappingVars, rows>>

OrderNext == ParseDailyOrders

SpecOrders == OrderInit /\ [][OrderNext]_vars

\* A non-empty grid has been parsed.
Parsed == pc = "parsed" /\ Len(rows) > 0

\* The row has a cell that matches an alias of the field.
RowHasField(row, field) == \E i \in DOMAIN row : CellMatchesField(row[i], field)

\* The trimmed non-empty cells of a row, in order.
RECURSIVE NonEmptyCells(_)
NonEmptyCells(row) ==
    IF row = <<>> THEN <<>>
    ELSE (IF Head(row) # Null /\ trim(Head(row)) # <<>> THEN <<trim(Head(row))>> ELSE <<>>)
         \o NonEmptyCells(Tail(row))

\* C5: when the chosen header row has no cell matching the Order No aliases
\* or none matching the Design aliases, parsing is rejected, the error names
\* exactly the missing ones of Order No and Design, and it contains the
\* comma-joined list of the non-empty cells of that row.
C5_MissingCriticalColumnsRejected ==
    Parsed =>
        LET headers  == rows[headerRowIndex + 1]
            expected == (IF RowHasField(headers, "orderNo") THEN <<>> ELSE <<Lbl_OrderNo>>)
                        \o (IF RowHasField(headers, "design") THEN <<>> ELSE <<Lbl_Design>>)
        IN  expected # <<>> =>
               /\ orderResult.status = "rejected"
               /\ orderResult.error.kind = "missing-critical-columns"
               /\ orderResult.error.missingCritical = Join(expected, CommaSpace)
               /\ includes(orderResult.error.detectedHeaders,
                           Join(NonEmptyCells(headers), CommaSpace))

\* The headers are Date, Customer: both columns are named and the header list
\* is "Date, Customer".
C5_Witness ==
    /\ Parsed
    /\ rows[1] = <<Txt_Date, Txt_Customer>>
    /\ orderResult.status = "rejected"
    /\ orderResult.error.kind = "missing-critical-columns"
    /\ orderResult.error.missingCritical = Lbl_OrderNo \o CommaSpace \o Lbl_Design
    /\ orderResult.error.detectedHeaders = Txt_Date \o CommaSpace \o Txt_Customer

\* The rows the detector scans.
ScannedRows == 1..Min(maxRowsToScan, Len(rows))

\* The row holds a header label: a cell that matches an alias of some field.
HasHeaderLabel(row) == \E f \in Range(OrderFields) : RowHasField(row, f)

\* C6: when some row among the first 20 has an Order No cell and a Design
\* cell and a later row has a value in one of those two columns, parsing
\* succeeds with a non-empty order list, whatever else that row holds and
\* wherever it is.  Stated for the grids in which that row is the only row
\* with a header label, so that no other row competes for the header.
C6_ResolvableColumnsAlwaysParsed ==
    Parsed =>
        \A i \in ScannedRows :
            (/\ RowHasField(rows[i], "orderNo")
             /\ RowHasField(rows[i], "design")
             /\ \A j \in DOMAIN rows : j # i => ~HasHeaderLabel(rows[j])
             /\ \E j \in (i + 1)..Len(rows) :
                   \/ extractCellValue(CellAt(rows[j], findColumnIndex(rows[i], "orderNo"))) # <<>>
                   \/ extractCellValue(CellAt(rows[j], findColumnIndex(rows[i], "design"))) # <<>>)
            => (orderResult.status = "resolved" /\ Len(orderResult.orders) > 0)

\* C7: when no scanned row scores 20 or more, header detection fails and
\* parsing is rejected: it never goes on to return orders with row 0 taken
\* as the header.
C7_NoHeaderRowMeansRejected ==
    Parsed =>
        ((\A i \in ScannedRows : scoreHeaderRow(rows[i]) < 20)
         => orderResult.status = "rejected")

\* The score the header-row detector is documented to give a row.
DocumentedScore(row) ==
    IF Len(NonEmptyCells(row)) < 3 THEN 0
    ELSE (IF RowHasField(row, "orderNo") THEN 10 + 20 ELSE 0)
         + (IF RowHasField(row, "design") THEN 10 + 20 ELSE 0)
         + (IF RowHasField(row, "weight") THEN 10 ELSE 0)
         + (IF RowHasField(row, "size") THEN 10 ELSE 0)
         + (IF RowHasField(row, "quantity") THEN 10 ELSE 0)
         + (IF RowHasField(row, "remarks") THEN 10 ELSE 0)

DocumentedScores == [i \in ScannedRows |-> DocumentedScore(rows[i])]

\* The earliest of the scanned rows with the highest documented score.
EarliestBestRow ==
    LET scores == DocumentedScores
    IN  CHOOSE i \in ScannedRows :
            /\ \A j \in ScannedRows : scores[j] <= scores[i]
            /\ \A j \in ScannedRows : j < i => scores[j] < scores[i]

looksLikeNumericRatio(value) ==
    IF Falsy(value) THEN FALSE
    ELSE LET trimmed == trim(value)
         IN  /\ trimmed # <<>>
             /\ \A i \in DOMAIN trimmed :
                    trimmed[i] \in Digits \cup JsWhitespace \cup {"+", "-", ":", "/"}

designAliases ==
    << <<"d","e","s","i","g","n">>,
       <<"p","r","o","d","u","c","t">>,
       <<"c","o","d","e">>,
       <<"d","e","s","i","g","n"," ","c","o","d","e">>,
       <<"p","r","o","d","u","c","t"," ","c","o","d","e">>,
       <<"i","t","e","m">>,
       <<"i","t","e","m"," ","c","o","d","e">>,
       <<"s","t","y","l","e">> >>

karigarAliases ==
    << <<"k","a","r","i","g","a","r">>,
       <<"a","r","t","i","s","a","n">>,
       <<"w","o","r","k","e","r">>,
       <<"c","r","a","f","t","s","m","a","n">>,
       <<"m","a","k","e","r">> >>

nameAliases ==
    << <<"n","a","m","e">>,
       <<"p","r","o","d","u","c","t"," ","n","a","m","e">>,
       <<"g","e","n","e","r","i","c">>,
       <<"g","e","n","e","r","i","c"," ","n","a","m","e">>,
       <<"i","t","e","m"," ","n","a","m","e">>,
       <<"d","e","s","c","r","i","p","t","i","o","n">> >>

Txt_GenericName == <<"G","e","n","e","r","i","c"," ","N","a","m","e">>
Txt_Karigar     == <<"K","a","r","i","g","a","r">>
Txt_Notes       == <<"N","o","t","e","s">>
Txt_Master      == <<"M","a","s","t","e","r">>
Txt_Chain       == <<"C","h","a","i","n">>
Txt_X1          == <<"X","1">>
Txt_Ratio       == <<"3","+","1">>
Txt_Hello       == <<"h","e","l","l","o">>

\* The rows of the worksheets that are three columns wide: a title row, a
\* header row with the three columns, one without the name column, and data
\* rows (two of one design, one whose name is a ratio).
MappingRowUniverse ==
    { <<Txt_Master, <<>>, <<>>>>,
      <<Txt_Design, Txt_GenericName, Txt_Karigar>>,
      <<Txt_Design, Txt_Karigar, Txt_Weight>>,
      <<Txt_AB_12, Txt_Ring, Txt_Foo>>,
      <<Txt_ab_12, Txt_Chain, Txt_Bar>>,
      <<Txt_X1, Txt_Ratio, Txt_Foo>> }

\* The worksheets that are one or two columns wide.
NarrowGrids ==
    { << <<Txt_Notes>> >>,
      << <<Txt_Notes>>, <<Txt_Hello>> >>,
      << <<Txt_Design, Txt_Karigar>>, <<Txt_AB_12, Txt_Foo>> >> }

MappingCellUniverse ==
    UNION {Range(r) : r \in MappingRowUniverse}
    \cup UNION {UNION {Range(g[i]) : i \in DOMAIN g} : g \in NarrowGrids}

\* What the header search asks of a cell, tabulated once for the cells of
\* the model: matchesHeaderAlias(String(cell || ''), ...Aliases), and for
\* the name column && !looksLikeNumericRatio(cellStr).
mappingHeaderTable ==
    [c \in MappingCellUniverse |->
        [design  |-> matchesHeaderAlias(StringOrEmpty(c), designAliases),
         karigar |-> matchesHeaderAlias(StringOrEmpty(c), karigarAliases),
         name    |-> /\ matchesHeaderAlias(StringOrEmpty(c), nameAliases)
                     /\ ~looksLikeNumericRatio(StringOrEmpty(c))]]

\* The test the header search makes of a cell for one of the three columns.
cellIsHeader(cell, column) == mappingHeaderTable[cell][column]

\* The least of a set of 1-based positions as a 0-based index, -1 for none.
firstIndex(positions) ==
    IF positions = {} THEN -1
    ELSE (CHOOSE i \in positions : \A j \in positions : i <= j) - 1

\* row.findIndex(cell => ...) for one of the three columns.
findHeaderCell(row, column) ==
    firstIndex({i \in DOMAIN row : cellIsHeader(row[i], column)})

\* tryParseSheet's header search scans this many leading rows.
headerSearchRows == 10

NoHeader ==
    [headerRowIndex |-> -1, designColIndex |-> -1, karigarColIndex |-> -1,
     nameColIndex |-> -1]

\* The test of lines 406-425 on a row: at least 3 cells, and all three
\* columns found.
isHeaderRow(row) ==
    /\ Len(row) >= 3
    /\ findHeaderCell(row, "design") # -1
    /\ findHeaderCell(row, "karigar") # -1
    /\ findHeaderCell(row, "name") # -1

\* The assignments of lines 426-429 for the row the search breaks at.
headerAt(grid, i) ==
    IF i = -1 THEN NoHeader
    ELSE [headerRowIndex  |-> i,
          designColIndex  |-> findHeaderCell(grid[i + 1], "design"),
          karigarColIndex |-> findHeaderCell(grid[i + 1], "karigar"),
          nameColIndex    |-> findHeaderCell(grid[i + 1], "name")]

\* A variant of searchHeader that scans every row of the sheet.
searchHeaderInAllRows(grid) ==
    headerAt(grid, firstIndex({i \in 1..Len(grid) : isHeaderRow(grid[i])}))

\* The header search of tryParseSheet: the loop breaks at the first of the
\* scanned rows that passes the test.
searchHeader(grid) ==
    headerAt(grid, firstIndex({i \in 1..Min(headerSearchRows, Len(grid)) :
                                   isHeaderRow(grid[i])}))

Lbl_DesignCode  == <<"D","e","s","i","g","n"," ","C","o","d","e">>
Lbl_GenericName == <<"G","e","n","e","r","i","c"," ","N","a","m","e">>
Lbl_KarigarName == <<"K","a","r","i","g","a","r"," ","N","a","m","e">>
Lbl_none        == <<"n","o","n","e">>

\* A SheetParseResult's error: the values its text is built from.  The kind
\* "undefined" is the absent error of a sheet that parsed.
SheetError(kind, sheetName, missingColumns, detectedHeaders) ==
    [kind |-> kind, sheetName |-> sheetName, missingColumns |-> missingColumns,
     detectedHeaders |-> detectedHeaders]

NoSheetError == SheetError("undefined", "", <<>>, <<>>)

\* detectedHeaders || 'none'
OrNone(detectedHeaders) == IF detectedHeaders = <<>> THEN Lbl_none ELSE detectedHeaders

\* rows[0].slice(0, 5).map(c => String(c || '')).filter(h => h).join(', '),
\* and || 'none' where the text is built.
detectedMappingHeaders(grid) ==
    OrNone(Join(SelectSeq([i \in 1..Min(5, Len(grid[1])) |-> StringOrEmpty(grid[1][i])],
                          LAMBDA h : h # <<>>),
                CommaSpace))

missingMappingColumns(header) ==
    (IF header.designColIndex = -1 THEN <<Lbl_DesignCode>> ELSE <<>>)
    \o (IF header.nameColIndex = -1 THEN <<Lbl_GenericName>> ELSE <<>>)
    \o (IF header.karigarColIndex = -1 THEN <<Lbl_KarigarName>> ELSE <<>>)

\* A variant of setMappingEntry that keeps the entry a key already has.
setMappingEntryIfAbsent(sheetEntries, design, designNormalized, karigar, genericName) ==
    IF designNormalized = <<>> \/ MapHas(sheetEntries, designNormalized) THEN sheetEntries
    ELSE MapSet(sheetEntries, designNormalized,
                [design |-> design, designNormalized |-> designNormalized,
                 karigar |-> karigar, genericName |-> genericName])

\* sheetEntries.set(designNormalized, entry), skipped for an empty key.
setMappingEntry(sheetEntries, design, designNormalized, karigar, genericName) ==
    IF designNormalized = <<>> THEN sheetEntries
    ELSE MapSet(sheetEntries, designNormalized,
                [design |-> design, designNormalized |-> designNormalized,
                 karigar |-> karigar, genericName |-> genericName])

\* Lines 467-485 for the three normalised fields of a row.
keepMappingRow(sheetEntries, design, karigar, genericName) ==
    IF design = <<>> \/ karigar = <<>> \/ genericName = <<>> THEN sheetEntries
    ELSE IF \/ includes(normalizeHeader(design), <<"d","e","s","i","g","n">>)
            \/ includes(normalizeHeader(karigar), <<"k","a","r","i","g","a","r">>)
      THEN sheetEntries
    ELSE setMappingEntry(sheetEntries, design, normalizeDesignCode(design),
                         karigar, genericName)

\* A variant of withoutRatio that lets every generic name through.
keepRatio(genericNameRaw) == genericNameRaw

\* genericNameRaw && !looksLikeNumericRatio(genericNameRaw) ? genericNameRaw : ''
withoutRatio(genericNameRaw) ==
    IF genericNameRaw # <<>> /\ ~looksLikeNumericRatio(genericNameRaw)
      THEN genericNameRaw ELSE <<>>

\* One turn of the data-row loop of tryParseSheet.
processMappingRow(sheetEntries, row, header) ==
    IF Len(row) = 0 THEN sheetEntries
    ELSE keepMappingRow(
             sheetEntries,
             normalizeCellValue(CellAt(row, header.designColIndex)),
             normalizeCellValue(CellAt(row, header.karigarColIndex)),
             withoutRatio(IF header.nameColIndex # -1 /\ header.nameColIndex < Len(row)
                            THEN normalizeCellValue(CellAt(row, header.nameColIndex))
                            ELSE <<>>))

\* The data-row loop of tryParseSheet from row i on.
RECURSIVE processMappingRows(_, _, _, _)
processMappingRows(sheetEntries, grid, i, header) ==
    IF i >= Len(grid) THEN sheetEntries
    ELSE processMappingRows(processMappingRow(sheetEntries, grid[i + 1], header),
                            grid, i + 1, header)

\* A variant of sheetResult that reports no error for a sheet without entries.
sheetResultWithoutError(sheetName, sheetEntries) ==
    [sheetName |-> sheetName, entries |-> sheetEntries, error |-> NoSheetError]

\* Lines 488-499: the result for the entries the data rows gave.
sheetResult(sheetName, sheetEntries) ==
    IF Len(sheetEntries) = 0
      THEN [sheetName |-> sheetName, entries |-> <<>>,
            error |-> SheetError("no-valid-mappings", sheetName, <<>>, <<>>)]
      ELSE [sheetName |-> sheetName, entries |-> sheetEntries, error |-> NoSheetError]

\* tryParseSheet from line 434 on, for the header the search gave.
parseWithHeader(sheetName, grid, header) ==
    IF \/ header.headerRowIndex = -1 \/ header.designColIndex = -1
       \/ header.karigarColIndex = -1 \/ header.nameColIndex = -1
      THEN [sheetName |-> sheetName, entries |-> <<>>,
            error |-> SheetError("missing-columns", sheetName,
                                 missingMappingColumns(header),
                                 detectedMappingHeaders(grid))]
      ELSE sheetResult(sheetName,
                       processMappingRows(<<>>, grid, header.headerRowIndex + 1, header))

tryParseSheet(sheetName, grid) ==
    IF Len(grid) = 0
      THEN [sheetName |-> sheetName, entries |-> <<>>,
            error |-> SheetError("empty", sheetName, <<>>, <<>>)]
      ELSE parseWithHeader(sheetName, grid, searchHeader(grid))

\* The sheet names of the model that are array indices: an object lists such
\* keys first, in ascending order (for these one-digit names the order of
\* localeCompare), whatever the order they were set in.
ArrayIndexNames == {"1", "2", "3"}

\* result[sheetName] = value, for a name the object does not hold yet.
ObjectSet(obj, name, value) ==
    LET before == SelectSeq(obj, LAMBDA e :
                      /\ e.name \in ArrayIndexNames
                      /\ (name \in ArrayIndexNames => localeCompare(e.name, name) < 0))
        after  == SelectSeq(obj, LAMBDA e :
                      ~(/\ e.name \in ArrayIndexNames
                        /\ (name \in ArrayIndexNames => localeCompare(e.name, name) < 0)))
    IN  IF name \in ArrayIndexNames
          THEN before \o <<[name |-> name, entries |-> value]>> \o after
          ELSE Append(obj, [name |-> name, entries |-> value])

\* Lines 534-540: the parse result is kept, and the sheet is stored in the
\* result when it has entries.
recordSheet(acc, parseResult) ==
    [result |-> IF Len(parseResult.entries) > 0
                  THEN ObjectSet(acc.result, parseResult.sheetName, parseResult.entries)
                  ELSE acc.result,
     parseResults |-> Append(acc.parseResults, parseResult)]

\* A variant of the sheet loop that stops at the first sheet without entries.
RECURSIVE scanSheetsUntilFailure(_, _, _)
scanSheetsUntilFailure(book, i, acc) ==
    IF i > Len(book) THEN acc
    ELSE IF i > 1 /\ Len(acc.parseResults[i - 1].entries) = 0 THEN acc
    ELSE scanSheetsUntilFailure(book, i + 1,
             recordSheet(acc, tryParseSheet(book[i].name, book[i].rows)))

\* The loop of parseExcelMapping over workbook.SheetNames from sheet i on:
\* [result, parseResults].
RECURSIVE scanSheets(_, _, _)
scanSheets(book, i, acc) ==
    IF i > Len(book) THEN acc
    ELSE scanSheets(book, i + 1,
             recordSheet(acc, tryParseSheet(book[i].name, book[i].rows)))

\* errorMessages || 'No valid sheets found. ...': the sheet errors that are
\* joined by blank lines, and whether the text is the reminder instead.
aggregateError(errorMessages) ==
    IF errorMessages # <<>>
      THEN [kind |-> "no-sheet-parsed", sheetErrors |-> errorMessages, reminder |-> FALSE]
      ELSE [kind |-> "no-sheet-parsed", sheetErrors |-> <<>>, reminder |-> TRUE]

\* parseResults.filter(r => r.error).map(r => r.error)
sheetErrorsOf(results) ==
    SelectSeq([i \in DOMAIN results |-> results[i].error],
              LAMBDA e : e.kind # "undefined")

\* Lines 543-557: the outcome for the sheets the loop has scanned.
settleScan(scan) ==
    [parseResults  |-> scan.parseResults,
     mappingResult |-> IF Len(ObjectKeys(scan.result)) = 0
                         THEN [status |-> "rejected",
                               error |-> aggregateError(sheetErrorsOf(scan.parseResults))]
                         ELSE [status |-> "resolved", result |-> scan.result]]

\* reader.onload of parseExcelMapping: [parseResults, mappingResult].
parseWorkbook(book) ==
    IF Len(book) = 0
      THEN [parseResults  |-> <<>>,
            mappingResult |-> [status |-> "rejected",
                               error |-> [kind |-> "no-sheets", sheetErrors |-> <<>>,
                                          reminder |-> FALSE]]]
      ELSE settleScan(scanSheets(book, 1, [result |-> <<>>, parseResults |-> <<>>]))

(***************************************************************************)
(* A mapping workbook is parsed: reader.onload of parseExcelMapping.        *)
(***************************************************************************)

\* The most rows a worksheet holds after its leading title rows.
MaxGridRows == 3

RECURSIVE MappingBodiesOfLen(_)
MappingBodiesOfLen(n) ==
    IF n = 0 THEN {<<>>}
    ELSE {Append(b, r) : b \in MappingBodiesOfLen(n - 1), r \in MappingRowUniverse}

\* Leading title rows: none, or as many as put the first or the second row
\* that follows them just beyond the rows the header search scans.
MappingTitleCounts == {0, headerSearchRows - 1, headerSearchRows}

MappingTitleRows(k) == [i \in 1..k |-> <<Txt_Master, <<>>, <<>>>>]

\* Worksheets whose header labels are spread over two rows: design and karigar
\* in the first row and the name in the second, and the other way round.
SplitHeaderGrids ==
    { << <<Txt_Design, Txt_Karigar, Txt_Weight>>,
         <<Txt_Master, Txt_GenericName, <<>>>>,
         <<Txt_AB_12, Txt_Ring, Txt_Foo>> >>,
      << <<Txt_Master, Txt_GenericName, <<>>>>,
         <<Txt_Design, Txt_Karigar, Txt_Weight>>,
         <<Txt_AB_12, Txt_Foo, Txt_Ring>> >> }

\* The worksheets of a workbook of one sheet.
SheetGrids ==
    {<<>>} \cup NarrowGrids \cup SplitHeaderGrids \cup
    {MappingTitleRows(k) \o b :
        k \in MappingTitleCounts,
        b \in UNION {MappingBodiesOfLen(n) : n \in 1..MaxGridRows}}

\* The worksheets of the larger sheet of a workbook of two sheets.
ShortGrids ==
    {<<>>} \cup NarrowGrids \cup
    UNION {MappingBodiesOfLen(n) : n \in 1..(MaxGridRows - 1)}

\* The worksheets of the sheet that accompanies it: empty, notes only, one
\* that parses, and one without the name column.
CompanionGrids ==
    { <<>>,
      << <<Txt_Notes>> >>,
      << <<Txt_Design, Txt_GenericName, Txt_Karigar>>, <<Txt_ab_12, Txt_Chain, Txt_Bar>> >>,
      << <<Txt_Design, Txt_Karigar, Txt_Weight>>, <<Txt_AB_12, Txt_Foo, Txt_Ring>> >> }

WorkbookSheet(name, grid) == [name |-> name, rows |-> grid]

Workbooks ==
    {<<>>}
    \cup {<<WorkbookSheet(n, g)>> : n \in {"1", "Sheet2"}, g \in SheetGrids}
    \cup UNION {{<<WorkbookSheet(names[1], g), WorkbookSheet(names[2], c)>>,
                 <<WorkbookSheet(names[1], c), WorkbookSheet(names[2], g)>>} :
                    names \in {<<"1", "Sheet2">>, <<"Sheet2", "1">>},
                    g \in ShortGrids, c \in CompanionGrids}

MappingInit ==
    /\ pc = "workbook"
    /\ workbook \in Workbooks
    /\ parseResults = Idle /\ mappingResult = Idle
    /\ nInput = Idle /\ nOnce = Idle /\ nTwice = Idle
    /\ blob = Idle /\ mappingData = Idle /\ mappingLookup = Idle
    /\ orders = Idle /\ enrichedOrders = Idle /\ diagnostics = Idle
    /\ sheetNames = Idle /\ readOrder = Idle
    /\ rows = Idle /\ headerRowIndex = Idle /\ orderResult = Idle
    /\ savedBlob = Idle /\ saveMutation = Idle /\ savesDone = Idle
    /\ workbookQuery = Idle /\ decodeQueries = Idle
    /\ LaterIdle

ParseExcelMapping ==
    /\ pc = "workbook"
    /\ \E outcome \in {parseWorkbook(workbook)} :
           /\ parseResults' = outcome.parseResults
           /\ mappingResult' = outcome.mappingResult
    /\ pc' = "settled"
    /\ UNCHANGED <<cacheVars, laterVars, readOrderVars, normalizeVars, lookupVars, orderVars, workbook>>

MappingNext == ParseExcelMapping

SpecMapping == MappingInit /\ [][MappingNext]_vars

\* The workbook has been parsed.
Settled == pc = "settled"

\* The sheets of the workbook that yield at least one entry.
YieldingSheets ==
    {i \in DOMAIN workbook : Len(tryParseSheet(workbook[i].name, workbook[i].rows).entries) > 0}

\* C4: every sheet of the workbook is attempted, the upload succeeds iff at
\* least one sheet yields at least one entry, and the result holds exactly
\* the sheets that yielded entries, each under its own name.
C4_PerSheetIsolation ==
    Settled =>
        /\ Len(parseResults) = Len(workbook)
        /\ \A i \in DOMAIN workbook :
               parseResults[i] = tryParseSheet(workbook[i].name, workbook[i].rows)
        /\ mappingResult.status = "resolved" <=> YieldingSheets # {}
        /\ mappingResult.status = "resolved" =>
               /\ Range(ObjectKeys(mappingResult.result))
                      = {workbook[i].name : i \in YieldingSheets}
               /\ Len(mappingResult.result) = Cardinality(YieldingSheets)
               /\ \A i \in YieldingSheets :
                      ObjectGet(mappingResult.result, workbook[i].name).entries
                          = parseResults[i].entries

\* Sheet "Sheet2" holds only Notes and comes first, sheet "1" has the three
\* columns and a data row: the upload succeeds with sheet "1" alone.
C4_Witness ==
    /\ Settled
    /\ Len(workbook) = 2
    /\ workbook[1] = WorkbookSheet("Sheet2", << <<Txt_Notes>> >>)
    /\ workbook[2] = WorkbookSheet("1", << <<Txt_Design, Txt_GenericName, Txt_Karigar>>,
                                           <<Txt_AB_12, Txt_Ring, Txt_Foo>> >>)
    /\ mappingResult.status = "resolved"
    /\ ObjectKeys(mappingResult.result) = <<"1">>
    /\ MapKeys(mappingResult.result[1].entries) = << <<"a","b","-","1","2">> >>

\* The rows of a worksheet that its header search examines.
ExaminedRows(grid) == {i \in 1..Min(headerSearchRows, Len(grid)) : Len(grid[i]) >= 3}

\* Some examined row of the worksheet has a header cell of the column.
Locatable(grid, column) ==
    \E i \in ExaminedRows(grid) : \E j \in DOMAIN grid[i] :
        mappingHeaderTable[grid[i][j]][column]

\* C8: a sheet that fails header detection has no entries, and its error
\* lists a column of Design Code, Generic Name, Karigar Name iff no examined
\* row of the sheet has a header cell of that column.
C8_MissingColumnsListedExactly ==
    Settled =>
        \A i \in DOMAIN parseResults :
            parseResults[i].error.kind = "missing-columns" =>
                /\ parseResults[i].entries = <<>>
                /\ Lbl_DesignCode \in Range(parseResults[i].error.missingColumns)
                       <=> ~Locatable(workbook[i].rows, "design")
                /\ Lbl_GenericName \in Range(parseResults[i].error.missingColumns)
                       <=> ~Locatable(workbook[i].rows, "name")
                /\ Lbl_KarigarName \in Range(parseResults[i].error.missingColumns)
                       <=> ~Locatable(workbook[i].rows, "karigar")

\* C9: when the workbook has sheets and none yields an entry, the upload is
\* rejected with one message that holds the error of every sheet and the
\* reminder of the three required columns.
C9_AggregateErrorHasReminder ==
    (Settled /\ Len(workbook) > 0 /\ YieldingSheets = {}) =>
        /\ mappingResult.status = "rejected"
        /\ \A i \in DOMAIN parseResults :
               parseResults[i].error \in Range(mappingResult.error.sheetErrors)
        /\ mappingResult.error.reminder

(***************************************************************************)
(* The warnings and the orders of a parsed order file.                     *)
(***************************************************************************)

\* The order file was parsed into orders.
Resolved == Parsed /\ orderResult.status = "resolved"

WarningsOfType(type) == SelectSeq(orderResult.warnings, LAMBDA w : w.type = type)

\* C11: a successful parse carries a non-first-header warning iff the
\* detected header row index k is above 0, then exactly one, with the row
\* number k + 1 and rows 1..k as the skipped ones.
C11_NonFirstHeaderWarning ==
    Resolved =>
        LET found == WarningsOfType("non-first-header")
        IN  /\ Len(found) = (IF headerRowIndex > 0 THEN 1 ELSE 0)
            /\ \A i \in DOMAIN found :
                   /\ found[i].headerRowIndex = headerRowIndex + 1
                   /\ found[i].skippedRows = <<1, headerRowIndex>>

\* Two title rows, the seven-column header, one data row: row index 2 is
\* detected and the warning names row 3.
C11_Witness ==
    /\ Resolved
    /\ rows = << <<Txt_Report>>, <<Txt_Report>>,
                 <<Txt_SrNo, Txt_OrderNo, Txt_Design, Txt_Weight, Txt_Size, Txt_Qty,
                   Txt_Remarks>>,
                 <<<<"1">>, Txt_AB_12, Txt_5g>> >>
    /\ headerRowIndex = 2
    /\ Len(WarningsOfType("non-first-header")) = 1
    /\ WarningsOfType("non-first-header")[1].headerRowIndex = 3

OptionalFields == <<"weight", "size", "quantity", "remarks">>

OptionalLabel(field) ==
    CASE field = "weight"   -> Lbl_Weight
      [] field = "size"     -> Lbl_Size
      [] field = "quantity" -> Lbl_Quantity
      [] field = "remarks"  -> Lbl_Remarks

\* The optional columns the header row has no cell for, in their fixed order.
AbsentOptional(headers) ==
    SelectSeq(OptionalFields, LAMBDA f : ~RowHasField(headers, f))

\* The rows after the detected header row, as 1-based positions in rows.
DataRowPositions == (headerRowIndex + 2)..Len(rows)

\* The row has a value, after normalisation, under the header's column.
HasValueUnder(row, headers, field) ==
    LET c == findColumnIndex(headers, field)
    IN  c # -1 /\ normalizeCellValue(CellAt(row, c)) # <<>>

\* The rows after the header that have an order number or a design.
SurvivingPositions ==
    {j \in DataRowPositions :
        \/ HasValueUnder(rows[j], rows[headerRowIndex + 1], "orderNo")
        \/ HasValueUnder(rows[j], rows[headerRowIndex + 1], "design")}

\* C12: with Order No and Design located, absent optional columns never make
\* the parse fail; every order has "" in each absent field, and there is one
\* missing-columns warning, listing exactly the absent optional columns, iff
\* some optional column is absent.
C12_MissingOptionalColumns ==
    (/\ Parsed
     /\ RowHasField(rows[headerRowIndex + 1], "orderNo")
     /\ RowHasField(rows[headerRowIndex + 1], "design")) =>
        LET absent == AbsentOptional(rows[headerRowIndex + 1])
        IN  /\ orderResult.status = "resolved" <=> SurvivingPositions # {}
            /\ orderResult.status = "resolved" =>
                   /\ \A i \in DOMAIN orderResult.orders : \A k \in DOMAIN absent :
                          orderResult.orders[i][absent[k]] = <<>>
                   /\ Len(WarningsOfType("missing-columns"))
                          = (IF Len(absent) > 0 THEN 1 ELSE 0)
                   /\ \A i \in DOMAIN WarningsOfType("missing-columns") :
                          WarningsOfType("missing-columns")[i].missingColumns
                              = [k \in DOMAIN absent |-> OptionalLabel(absent[k])]

\* The header has Order No, Design and Weight; two data rows follow: one
\* warning lists Size, Quantity, Remarks, and both orders lack them.
C12_Witness ==
    /\ Resolved
    /\ rows = << <<Txt_OrderNo, Txt_Design, Txt_Weight>>,
                 <<<<"1">>, Txt_AB_12, Txt_5g>>, <<<<"1">>, Txt_AB_12, Txt_5g>> >>
    /\ Len(orderResult.orders) = 2
    /\ orderResult.orders[2].weight = Txt_5g
    /\ orderResult.orders[2].size = <<>>
    /\ Len(WarningsOfType("missing-columns")) = 1
    /\ WarningsOfType("missing-columns")[1].missingColumns
           = <<Lbl_Size, Lbl_Quantity, Lbl_Remarks>>

\* The positions of a set in ascending order.
RECURSIVE Ascending(_)
Ascending(positions) ==
    IF positions = {} THEN <<>>
    ELSE LET least == CHOOSE i \in positions : \A j \in positions : i <= j
         IN  <<least>> \o Ascending(positions \ {least})

\* C13: with both critical columns located, the orders are exactly the rows
\* after the header row whose normalised order number or design is not
\* empty, in their order; with no such row the parse fails with the
\* no-valid-orders error.
C13_OrdersAreSurvivingRows ==
    (/\ Parsed
     /\ RowHasField(rows[headerRowIndex + 1], "orderNo")
     /\ RowHasField(rows[headerRowIndex + 1], "design")) =>
        LET kept    == Ascending(SurvivingPositions)
            headers == rows[headerRowIndex + 1]
        IN  IF kept = <<>>
              THEN /\ orderResult.status = "rejected"
                   /\ orderResult.error.kind = "no-valid-orders"
              ELSE /\ orderResult.status = "resolved"
                   /\ Len(orderResult.orders) = Len(kept)
                   /\ \A i \in DOMAIN kept :
                          /\ orderResult.orders[i].orderNo
                                 = normalizeCellValue(
                                       CellAt(rows[kept[i]], findColumnIndex(headers, "orderNo")))
                          /\ orderResult.orders[i].design
                                 = normalizeCellValue(
                                       CellAt(rows[kept[i]], findColumnIndex(headers, "design")))

\* A blank row stands between the header and a data row: one order, taken
\* from the third row.
C13_Witness ==
    /\ Resolved
    /\ rows = << <<Txt_OrderNo, Txt_Design, Txt_Weight>>,
                 <<<<" ">>, Null, Txt_5g>>,
                 <<<<"1">>, Txt_AB_12, Txt_5g>> >>
    /\ headerRowIndex = 0
    /\ Len(orderResult.orders) = 1
    /\ orderResult.orders[1].design = Txt_AB_12

(***************************************************************************)
(* The sheet read order is computed: getMappingSheetReadOrder.             *)
(***************************************************************************)

\* The most sheet names handed to getMappingSheetReadOrder.
MaxNames == 3

ReadOrderNames == Range(CodeUnitOrder)

\* The lists of distinct sheet names.
NameLists ==
    UNION {{q \in [1..n -> ReadOrderNames] : \A i, j \in 1..n : q[i] = q[j] => i = j} :
              n \in 0..MaxNames}

ReadOrderInit ==
    /\ pc = "names"
    /\ sheetNames \in NameLists
    /\ readOrder = Idle
    /\ nInput = Idle /\ nOnce = Idle /\ nTwice = Idle
    /\ blob = Idle /\ mappingData = Idle /\ mappingLookup = Idle
    /\ orders = Idle /\ enrichedOrders = Idle /\ diagnostics = Idle
    /\ workbook = Idle /\ parseResults = Idle /\ mappingResult = Idle
    /\ rows = Idle /\ headerRowIndex = Idle /\ orderResult = Idle
    /\ savedBlob = Idle /\ saveMutation = Idle /\ savesDone = Idle
    /\ workbookQuery = Idle /\ decodeQueries = Idle
    /\ LaterIdle

GetMappingSheetReadOrder ==
    /\ pc = "names"
    /\ readOrder' = getMappingSheetReadOrder(sheetNames)
    /\ pc' = "ordered"
    /\ UNCHANGED <<cacheVars, laterVars, sheetNames, normalizeVars, lookupVars, mappingVars, orderVars>>

ReadOrderNext == GetMappingSheetReadOrder

SpecReadOrder == ReadOrderInit /\ [][ReadOrderNext]_vars

\* The read order has been computed.
Ordered == pc = "ordered"

PriorityRank(name) ==
    CASE name = "1" -> 1
      [] name = "3" -> 2
      [] name = "2" -> 3

CodeUnitIndex(a) == CHOOSE i \in DOMAIN CodeUnitOrder : CodeUnitOrder[i] = a

\* The lists that hold the same names in some order.
Reorderings(names) ==
    {q \in [DOMAIN names -> Range(names)] : Range(q) = Range(names)}

\* The result is a permutation of the input in which the present ones of
\* "1", "3", "2" come first, in that order.
PriorityNamesFirst ==
    /\ Len(readOrder) = Len(sheetNames)
    /\ Range(readOrder) = Range(sheetNames)
    /\ \A i, j \in DOMAIN readOrder :
           (i < j /\ readOrder[j] \in Range(prioritySheets)) =>
               /\ readOrder[i] \in Range(prioritySheets)
               /\ PriorityRank(readOrder[i]) < PriorityRank(readOrder[j])

\* C14, as stated: the present ones of "1", "3", "2" in that order, then the
\* other names in lexicographic order; a permutation of the input, and the
\* same for every ordering of the input.
C14_ReadOrderLexicographic ==
    Ordered =>
        /\ PriorityNamesFirst
        /\ \A i, j \in DOMAIN readOrder :
               (i < j /\ readOrder[i] \notin Range(prioritySheets)) =>
                   CodeUnitIndex(readOrder[i]) < CodeUnitIndex(readOrder[j])
        /\ \A q \in Reorderings(sheetNames) : getMappingSheetReadOrder(q) = readOrder

(***************************************************************************)
(* The stored keys of a mapping blob.                                      *)
(***************************************************************************)

\* Ways to write the stored keys of a blob anew: empty, the karigar's name
\* (a key that belongs to another text), the lower-cased design.
StoredKeyRules == {"empty", "karigar", "lowercase"}

StoredKey(entry, rule) ==
    CASE rule = "empty"     -> <<>>
      [] rule = "karigar"   -> entry.karigar
      [] rule = "lowercase" -> toLowerCase(OrEmpty(entry.design))

\* The blob with every stored key written anew, and nothing else changed.
WithStoredKeys(data, rule) ==
    [i \in DOMAIN data |->
        [name    |-> data[i].name,
         entries |-> [j \in DOMAIN data[i].entries |->
                         [data[i].entries[j] EXCEPT
                             !.designNormalized = StoredKey(data[i].entries[j], rule)]]]]

\* C15: the stored designNormalized of an entry is never trusted: blobs that
\* differ in their stored keys only decode to the same data and give the
\* same lookup, every decoded key being normalizeDesignCode(design).
C15_StoredKeysNeverTrusted ==
    /\ pc \in {"decoded", "lookup", "enriched"} =>
           /\ \A rule \in StoredKeyRules :
                  decodeBlobToMapping(WithStoredKeys(blob, rule)) = mappingData
           /\ \A p \in DecodedPositions :
                  mappingData[p[1]].entries[p[2]].designNormalized
                      = normalizeDesignCode(blob[p[1]].entries[p[2]].design)
    /\ pc \in {"lookup", "enriched"} =>
           \A rule \in StoredKeyRules :
               buildLookup(decodeBlobToMapping(WithStoredKeys(blob, rule))) = mappingLookup

\* The stored key of AB-12 is "AB-12"; the decoded key and the key of the
\* lookup are "ab-12".
C15_Witness ==
    /\ pc = "lookup"
    /\ Len(blob) = 1
    /\ blob[1].entries = <<BlobEntry(Txt_AB_12, Txt_Foo, Txt_Ring)>>
    /\ blob[1].entries[1].designNormalized = Txt_AB_12
    /\ mappingData[1].entries[1].designNormalized = Txt_ab_12
    /\ MapKeys(mappingLookup) = <<Txt_ab_12>>


(***************************************************************************)
(* The saved mapping and the lookup derived from it                        *)
(* hooks/useQueries (useGetKarigarMappingWorkbook,                         *)
(* useSaveKarigarMappingWorkbook), useKarigarMappingLookup, OrderListTab   *)
(*                                                                         *)
(* The query cache holds one entry for ['karigarMappingWorkbook'] and one  *)
(* entry per key ['decodedMappingLookup', url].  A fetch is started by a   *)
(* mount, by a change of the observed key or by an invalidation, and       *)
(* settles later; saves, responses and settlements interleave freely.      *)
(***************************************************************************)

\* The most saves made in one run.
MaxSaves == 3

\* The addresses of the stored blobs and the bytes (parsed JSON) behind each.
BlobURLs == {"blob-1", "blob-2"}

StoredBytes ==
    [u \in BlobURLs |->
        IF u = "blob-1"
          THEN <<[name |-> "1", entries |-> <<BlobEntry(Txt_AB_12, Txt_Foo, Txt_Ring)>>]>>
          ELSE <<[name |-> "2", entries |-> <<BlobEntry(Txt_AB_12, Txt_Bar, Null)>>]>>]

\* An ExternalBlob: a handle on stored bytes.
ExternalBlob(url) == <<"ExternalBlob", url>>

SavedBlobs == {ExternalBlob(u) : u \in BlobURLs}

\* ExternalBlob.getDirectURL(): the address of the stored bytes.
getDirectURL(mappingBlob) == mappingBlob[2]

\* ExternalBlob.getBytes(), parsed.
getBytes(mappingBlob) == StoredBytes[getDirectURL(mappingBlob)]

\* A variant of decodeQueryKey that leaves the blob's URL out of the key.
decodeQueryKeyWithoutURL(mappingBlob) == "undefined"

\* The second element of the key ['decodedMappingLookup', mappingBlob?.getDirectURL()].
decodeQueryKey(mappingBlob) ==
    IF mappingBlob = Null THEN "undefined" ELSE getDirectURL(mappingBlob)

DecodeKeys == {"undefined"} \cup BlobURLs

\* The decode query function for the blob it closed over.
decodeQueryFn(mappingBlob) ==
    IF mappingBlob = Null THEN <<>>
    ELSE buildLookup(decodeBlobToMapping(getBytes(mappingBlob)))

\* A cache entry without data, and a fetch without an answer; data and answers
\* are kept as one-element sequences.
NoData == <<>>

NotFetching == <<"<not fetching>">>

AbsentQuery ==
    [status |-> "absent", invalidated |-> FALSE, fetching |-> NotFetching, data |-> NoData]

\* OrderListTab: useKarigarMappingLookup(mappingBlob || null).
renderedBlob(query) == IF query.data = NoData THEN Null ELSE query.data[1]

\* The key the decode observer is subscribed to.
observedKey == decodeQueryKey(renderedBlob(workbookQuery))

\* query.data?.lookup || new Map()
lookupInUse ==
    IF decodeQueries[observedKey].data = NoData THEN <<>>
    ELSE decodeQueries[observedKey].data[1]

\* A fetch of a decode query that runs the query function closed over mappingBlob.
startDecodeFetch(query, mappingBlob) ==
    [query EXCEPT !.status = "fetching", !.fetching = mappingBlob]

\* The observer moves to key: staleTime 0 makes every entry stale, so a fetch
\* starts unless one is already running for that key, which is then joined.
observeKey(queries, key, mappingBlob) ==
    IF queries[key].status = "fetching" THEN queries
    ELSE [queries EXCEPT ![key] = startDecodeFetch(queries[key], mappingBlob)]

\* invalidateQueries({ queryKey: ['decodedMappingLookup'] }): every entry is
\* marked invalid and the observed one is fetched again, dropping a running fetch.
invalidateDecodeQueries(queries, key, mappingBlob) ==
    [k \in DecodeKeys |->
        IF k = key THEN startDecodeFetch([queries[k] EXCEPT !.invalidated = TRUE], mappingBlob)
        ELSE IF queries[k].status = "absent" THEN queries[k]
        ELSE [queries[k] EXCEPT !.invalidated = TRUE]]

\* The page is mounted: both queries have started; nothing is saved yet, or
\* a blob was saved in an earlier session.
CacheInit ==
    /\ pc = "mounted"
    /\ savedBlob \in SavedBlobs \cup {Null}
    /\ saveMutation = "idle"
    /\ savesDone = 0
    /\ workbookQuery = [status |-> "fetching", response |-> NoData, data |-> NoData]
    /\ decodeQueries = [k \in DecodeKeys |->
                           IF k = decodeQueryKey(Null)
                             THEN startDecodeFetch(AbsentQuery, Null)
                             ELSE AbsentQuery]
    /\ sheetNames = Idle /\ readOrder = Idle
    /\ nInput = Idle /\ nOnce = Idle /\ nTwice = Idle
    /\ blob = Idle /\ mappingData = Idle /\ mappingLookup = Idle
    /\ orders = Idle /\ enrichedOrders = Idle /\ diagnostics = Idle
    /\ workbook = Idle /\ parseResults = Idle /\ mappingResult = Idle
    /\ rows = Idle /\ headerRowIndex = Idle /\ orderResult = Idle
    /\ LaterIdle

idleVars == <<pc, readOrderVars, normalizeVars, lookupVars, mappingVars, orderVars, laterVars>>

\* mutationFn: actor.saveKarigarMappingWorkbook(blob) stores the blob.
SaveMutate ==
    /\ saveMutation = "idle"
    /\ savesDone < MaxSaves
    /\ \E b \in SavedBlobs : savedBlob' = b
    /\ saveMutation' = "resolved"
    /\ savesDone' = savesDone + 1
    /\ UNCHANGED <<idleVars, workbookQuery, decodeQueries>>

\* onSuccess: both query families are invalidated.
SaveOnSuccess ==
    /\ saveMutation = "resolved"
    /\ saveMutation' = "idle"
    /\ workbookQuery' = [workbookQuery EXCEPT !.status = "fetching", !.response = NoData]
    /\ decodeQueries' = invalidateDecodeQueries(decodeQueries, observedKey,
                                                renderedBlob(workbookQuery))
    /\ UNCHANGED <<idleVars, savedBlob, savesDone>>

\* queryFn of ['karigarMappingWorkbook']: the backend answers with what it holds.
WorkbookRespond ==
    /\ workbookQuery.status = "fetching"
    /\ workbookQuery.response = NoData
    /\ workbookQuery' = [workbookQuery EXCEPT !.response = <<savedBlob>>]
    /\ UNCHANGED <<idleVars, savedBlob, saveMutation, savesDone, decodeQueries>>

\* The answer arrives; OrderListTab renders with it and the decode observer
\* moves to the key of the blob it now holds.
WorkbookSettle ==
    /\ workbookQuery.status = "fetching"
    /\ workbookQuery.response # NoData
    /\ workbookQuery' = [status |-> "success", response |-> NoData,
                         data |-> workbookQuery.response]
    /\ decodeQueries' =
          IF decodeQueryKey(workbookQuery.response[1]) = observedKey THEN decodeQueries
          ELSE observeKey(decodeQueries, decodeQueryKey(workbookQuery.response[1]),
                          workbookQuery.response[1])
    /\ UNCHANGED <<idleVars, savedBlob, saveMutation, savesDone>>

\* A decode fetch settles with the lookup of the blob its query function holds.
DecodeSettle ==
    \E k \in DecodeKeys :
        /\ decodeQueries[k].status = "fetching"
        /\ decodeQueries' = [decodeQueries EXCEPT
              ![k] = [status |-> "success", invalidated |-> FALSE, fetching |-> NotFetching,
                      data |-> <<decodeQueryFn(decodeQueries[k].fetching)>>]]
        /\ UNCHANGED <<idleVars, savedBlob, saveMutation, savesDone, workbookQuery>>

CacheNext ==
    SaveMutate \/ SaveOnSuccess \/ WorkbookRespond \/ WorkbookSettle \/ DecodeSettle

SpecCache == CacheInit /\ [][CacheNext]_vars

\* No save is under way and both queries have settled.
QueriesSettled ==
    /\ saveMutation = "idle"
    /\ workbookQuery.status = "success"
    /\ decodeQueries[observedKey].status = "success"

\* C16: after any sequence of successful saves, once the mapping query and the
\* decode query have settled, the lookup that enriches the orders is the one
\* derived from the most recently saved blob, never from an earlier one.
C16_LookupNeverStale ==
    QueriesSettled => lookupInUse = decodeQueryFn(savedBlob)

\* Two saves were made, the earlier blob's lookup is still in the cache under
\* its own key, and the lookup in use is the later blob's.
C16_Witness ==
    /\ QueriesSettled
    /\ savesDone >= 2
    /\ savedBlob = ExternalBlob("blob-2")
    /\ decodeQueries["blob-1"].status = "success"
    /\ lookupInUse = decodeQueryFn(ExternalBlob("blob-2"))
    /\ lookupInUse # decodeQueryFn(ExternalBlob("blob-1"))


(***************************************************************************)
(* The entries of a parsed mapping sheet.                                  *)
(***************************************************************************)

\* A text of digits, whitespace and + - : / only.
RatioShaped(text) ==
    /\ text # <<>>
    /\ \A i \in DOMAIN text :
           text[i] \in Digits \cup JsWhitespace \cup {"+", "-", ":", "/"}

\* The header the search finds in sheet i of the workbook.
HeaderOf(i) == searchHeader(workbook[i].rows)

\* The sheets of the workbook whose header was found.
SheetsWithHeader == {i \in DOMAIN workbook : HeaderOf(i).headerRowIndex # -1}

\* The 1-based positions of the data rows of sheet i.
MappingDataRows(i) ==
    {r \in DOMAIN workbook[i].rows : r > HeaderOf(i).headerRowIndex + 1}

\* The normalised cell of row r of sheet i under a column of its header.
DesignOf(i, r) ==
    normalizeCellValue(CellAt(workbook[i].rows[r], HeaderOf(i).designColIndex))

KarigarOf(i, r) ==
    normalizeCellValue(CellAt(workbook[i].rows[r], HeaderOf(i).karigarColIndex))

GenericNameOf(i, r) ==
    normalizeCellValue(CellAt(workbook[i].rows[r], HeaderOf(i).nameColIndex))

\* C17: no entry of a parsed sheet has a generic name made of digits,
\* whitespace and + - : / only, a data cell of that shape is never stored as
\* a generic name, and the cell taken as the Generic-Name header is never of
\* that shape.
C17_NumericRatioGuard ==
    Settled =>
        \A i \in DOMAIN workbook :
            /\ \A e \in DOMAIN parseResults[i].entries :
                   ~RatioShaped(parseResults[i].entries[e].value.genericName)
            /\ \A r \in (IF i \in SheetsWithHeader THEN MappingDataRows(i) ELSE {}) :
                   RatioShaped(GenericNameOf(i, r)) =>
                       \A e \in DOMAIN parseResults[i].entries :
                           parseResults[i].entries[e].value.genericName
                               # GenericNameOf(i, r)
            /\ i \in SheetsWithHeader =>
                   ~RatioShaped(StringOrEmpty(
                       CellAt(workbook[i].rows[HeaderOf(i).headerRowIndex + 1],
                              HeaderOf(i).nameColIndex)))

\* A sheet with a named row and a row whose name cell reads 3+1: the sheet
\* parses, and only the named row gave an entry.
C17_Witness ==
    /\ Settled
    /\ Len(workbook) = 1
    /\ workbook[1].rows = << <<Txt_Design, Txt_GenericName, Txt_Karigar>>,
                             <<Txt_AB_12, Txt_Ring, Txt_Foo>>,
                             <<Txt_X1, Txt_Ratio, Txt_Foo>> >>
    /\ RatioShaped(GenericNameOf(1, 3))
    /\ MapKeys(parseResults[1].entries) = << <<"a","b","-","1","2">> >>
    /\ parseResults[1].entries[1].value.genericName = Txt_Ring

\* The design or karigar text reads as the label of its header cell.
ReadsAsHeaderLabel(i, r) ==
    \/ normalizeHeader(DesignOf(i, r))
           = normalizeHeader(StringOrEmpty(
                 CellAt(workbook[i].rows[HeaderOf(i).headerRowIndex + 1],
                        HeaderOf(i).designColIndex)))
    \/ normalizeHeader(KarigarOf(i, r))
           = normalizeHeader(StringOrEmpty(
                 CellAt(workbook[i].rows[HeaderOf(i).headerRowIndex + 1],
                        HeaderOf(i).karigarColIndex)))

\* The reasons for which the specification lets a data row be skipped.
MaySkip(i, r) ==
    \/ DesignOf(i, r) = <<>>
    \/ KarigarOf(i, r) = <<>>
    \/ ReadsAsHeaderLabel(i, r)
    \/ normalizeDesignCode(DesignOf(i, r)) = <<>>

\* C18: in a sheet whose header was found, a data row is skipped only when its
\* design or karigar is empty, reads as the header label, or has an empty
\* design key; every other data row yields an entry under
\* normalizeDesignCode(design).
C18_OnlyListedRowsSkipped ==
    Settled =>
        \A i \in SheetsWithHeader : \A r \in MappingDataRows(i) :
            ~MaySkip(i, r) =>
                MapHas(parseResults[i].entries, normalizeDesignCode(DesignOf(i, r)))

\* The outcomes of tryParseSheet by the kind of their error.
ErrorKindOf(grid) ==
    IF Len(grid) = 0 THEN "empty"
    ELSE IF searchHeader(grid).headerRowIndex = -1 THEN "missing-columns"
    ELSE IF Len(processMappingRows(<<>>, grid, searchHeader(grid).headerRowIndex + 1,
                                   searchHeader(grid))) = 0
      THEN "no-valid-mappings"
    ELSE "undefined"

\* C19: every sheet gets a result value, an empty sheet, a sheet without an
\* acceptable header row and a sheet with a header but no valid data row
\* included, and a result has an error exactly when its entry map is empty.
C19_SheetResultNeverThrown ==
    Settled =>
        /\ Len(parseResults) = Len(workbook)
        /\ \A i \in DOMAIN workbook :
               /\ parseResults[i].sheetName = workbook[i].name
               /\ parseResults[i].error.kind = ErrorKindOf(workbook[i].rows)
               /\ parseResults[i].error.kind # "undefined"
                      <=> Len(parseResults[i].entries) = 0

\* A workbook of an empty sheet and a sheet whose only data row has a ratio
\* for a name: both sheets have a result with an error and no entries.
C19_Witness ==
    /\ Settled
    /\ Len(workbook) = 2
    /\ workbook[1].rows = <<>>
    /\ parseResults[1].error.kind = "empty"
    /\ parseResults[2].error.kind \in {"missing-columns", "no-valid-mappings"}
    /\ parseResults[1].entries = <<>> /\ parseResults[2].entries = <<>>

\* Three sheets' worth of outcomes in one-sheet workbooks: a header with no
\* valid data row.
C19_WitnessNoValidRow ==
    /\ Settled
    /\ Len(workbook) = 1
    /\ workbook[1].rows = << <<Txt_Design, Txt_GenericName, Txt_Karigar>>,
                             <<Txt_X1, Txt_Ratio, Txt_Foo>> >>
    /\ parseResults[1].error.kind = "no-valid-mappings"
    /\ parseResults[1].entries = <<>>


(***************************************************************************)
(* The diagnostics of the enrichment.                                      *)
(***************************************************************************)

Enriched == pc = "enriched"

\* The orders whose normalised design code is a key of the lookup.
OrdersWithKey == {i \in DOMAIN orders : MapHas(mappingLookup, normalizeDesignCode(orders[i].design))}

\* C20: hasMappingButNoMatches is true exactly when mappingEntries > 0,
\* matchedOrders = 0 and totalOrders > 0, the counts being those of the
\* lookup and the orders (no order with a key of the lookup gives
\* matchedOrders 0), and each of the two samples holds at most 5 normalised
\* keys.
C20_NoMatchDiagnostic ==
    Enriched =>
        /\ diagnostics.totalOrders = Len(orders)
        /\ diagnostics.mappingEntries = Len(mappingLookup)
        /\ OrdersWithKey = {} => diagnostics.matchedOrders = 0
        /\ diagnostics.hasMappingButNoMatches
               <=> /\ diagnostics.mappingEntries > 0
                   /\ diagnostics.matchedOrders = 0
                   /\ diagnostics.totalOrders > 0
        /\ Len(diagnostics.orderKeysSample) <= 5
        /\ Len(diagnostics.mappingSample) <= 5
        /\ \A i \in DOMAIN diagnostics.mappingSample :
               MapHas(mappingLookup, diagnostics.mappingSample[i])
        /\ \A i \in DOMAIN diagnostics.orderKeysSample :
               \E j \in DOMAIN orders :
                   diagnostics.orderKeysSample[i] = normalizeDesignCode(orders[j].design)

\* A lookup of ten entries and five orders with none of its keys.
C20_Witness ==
    /\ Enriched
    /\ Len(mappingLookup) = 10
    /\ Len(orders) = 5
    /\ OrdersWithKey = {}
    /\ diagnostics.matchedOrders = 0
    /\ diagnostics.totalOrders = 5
    /\ diagnostics.hasMappingButNoMatches
    /\ Len(diagnostics.mappingSample) = 5


(***************************************************************************)
(* Header matching: the cells of one header row are matched to the logical *)
(* columns of the parser that reads the row -- parseDailyOrders, the Excel *)
(* path of the mapping parser (tryParseSheet) or its PDF path              *)
(* (parsePdfMapping).                                                      *)
(***************************************************************************)

earlierVars == <<readOrderVars, normalizeVars, lookupVars, mappingVars, orderVars, cacheVars>>

EarlierIdle ==
    /\ sheetNames = Idle /\ readOrder = Idle
    /\ nInput = Idle /\ nOnce = Idle /\ nTwice = Idle
    /\ blob = Idle /\ mappingData = Idle /\ mappingLookup = Idle
    /\ orders = Idle /\ enrichedOrders = Idle /\ diagnostics = Idle
    /\ workbook = Idle /\ parseResults = Idle /\ mappingResult = Idle
    /\ rows = Idle /\ headerRowIndex = Idle /\ orderResult = Idle
    /\ savedBlob = Idle /\ saveMutation = Idle /\ savesDone = Idle
    /\ workbookQuery = Idle /\ decodeQueries = Idle

\* parsePdfMapping: the alias lists of its header search.
pdfDesignAliases ==
    << <<"d","e","s","i","g","n">>,
       <<"p","r","o","d","u","c","t">>,
       <<"c","o","d","e">>,
       <<"d","e","s","i","g","n"," ","c","o","d","e">>,
       <<"p","r","o","d","u","c","t"," ","c","o","d","e">>,
       <<"i","t","e","m">>,
       <<"i","t","e","m"," ","c","o","d","e">> >>

pdfKarigarAliases ==
    << <<"k","a","r","i","g","a","r">>,
       <<"a","r","t","i","s","a","n">>,
       <<"w","o","r","k","e","r">>,
       <<"c","r","a","f","t","s","m","a","n">> >>

pdfNameAliases ==
    << <<"n","a","m","e">>,
       <<"p","r","o","d","u","c","t"," ","n","a","m","e">>,
       <<"g","e","n","e","r","i","c">>,
       <<"g","e","n","e","r","i","c"," ","n","a","m","e">>,
       <<"i","t","e","m"," ","n","a","m","e">>,
       <<"d","e","s","c","r","i","p","t","i","o","n">> >>

Parsers == {"orders", "excel", "pdf"}

MappingColumns == <<"design", "karigar", "name">>

\* The logical columns a parser reads, in the order it looks for them.
columnsOf(parser) == IF parser = "orders" THEN OrderFields ELSE MappingColumns

\* The alias list a parser uses for a column.
aliasesOf(parser, column) ==
    IF parser = "orders" THEN COLUMN_ALIASES[column]
    ELSE IF parser = "excel"
      THEN (IF column = "design" THEN designAliases
            ELSE IF column = "karigar" THEN karigarAliases ELSE nameAliases)
    ELSE (IF column = "design" THEN pdfDesignAliases
          ELSE IF column = "karigar" THEN pdfKarigarAliases ELSE pdfNameAliases)

\* The test a parser makes of a header cell for a column: the mapping
\* parsers refuse a numeric ratio as the name column.
cellMatches(parser, cell, column) ==
    /\ matchesHeaderAlias(StringOrEmpty(cell), aliasesOf(parser, column))
    /\ (parser # "orders" /\ column = "name") => ~looksLikeNumericRatio(StringOrEmpty(cell))

\* A variant of findIndex that returns the last matching cell.
findLastIndex(parser, cells, column) ==
    IF \E i \in DOMAIN cells : cellMatches(parser, cells[i], column)
      THEN (CHOOSE i \in DOMAIN cells :
               /\ cellMatches(parser, cells[i], column)
               /\ \A j \in (i + 1)..Len(cells) : ~cellMatches(parser, cells[j], column)) - 1
      ELSE -1

\* headers.findIndex(h => matchesHeaderAlias(String(h || ''), aliases))
findIndex(parser, cells, column) ==
    IF \E i \in DOMAIN cells : cellMatches(parser, cells[i], column)
      THEN (CHOOSE i \in DOMAIN cells :
               /\ cellMatches(parser, cells[i], column)
               /\ \A j \in 1..(i - 1) : ~cellMatches(parser, cells[j], column)) - 1
      ELSE -1

\* The alias lists of the specification (section 6, alias configuration).
SpecifiedAliases ==
    [ orderNo |-> << <<"o","r","d","e","r"," ","n","o">>,
                     <<"o","r","d","e","r"," ","n","o",".">>,
                     <<"o","r","d","e","r","n","o">>,
                     <<"o","r","d","e","r"," ","n","u","m","b","e","r">>,
                     <<"o","r","d","e","r"," ","#">>,
                     <<"o","r","d","e","r">>,
                     <<"s","r"," ","n","o">>,
                     <<"s","r"," ","n","o",".">>,
                     <<"s","e","r","i","a","l"," ","n","o">> >>,
      design |-> << <<"d","e","s","i","g","n">>,
                    <<"d","e","s","i","g","n"," ","c","o","d","e">>,
                    <<"d","e","s","i","g","n","c","o","d","e">>,
                    <<"d","e","s","i","g","n"," ","n","o">>,
                    <<"d","e","s","i","g","n"," ","n","o",".">>,
                    <<"i","t","e","m">>,
                    <<"i","t","e","m"," ","c","o","d","e">>,
                    <<"p","r","o","d","u","c","t">>,
                    <<"c","o","d","e">>,
                    <<"s","t","y","l","e">> >>,
      weight |-> << <<"w","e","i","g","h","t">>,
                    <<"w","t">>,
                    <<"w","t",".">>,
                    <<"n","e","t"," ","w","t">>,
                    <<"n","e","t"," ","w","t",".">>,
                    <<"n","e","t"," ","w","e","i","g","h","t">>,
                    <<"g","r","o","s","s"," ","w","t">>,
                    <<"g","r","o","s","s"," ","w","e","i","g","h","t">>,
                    <<"n","e","t","w","t">> >>,
      size |-> << <<"s","i","z","e">>,
                  <<"s","z">>,
                  <<"s","z",".">>,
                  <<"d","i","m","e","n","s","i","o","n">>,
                  <<"d","i","m","e","n","s","i","o","n","s">>,
                  <<"d","i","m">> >>,
      quantity |-> << <<"q","u","a","n","t","i","t","y">>,
                      <<"q","t","y">>,
                      <<"q","t","y",".">>,
                      <<"q","u","a","n">>,
                      <<"q","u","a","n",".">>,
                      <<"c","o","u","n","t">>,
                      <<"p","i","e","c","e","s">>,
                      <<"p","c","s">>,
                      <<"n","o","s">> >>,
      remarks |-> << <<"r","e","m","a","r","k","s">>,
                     <<"r","e","m","a","r","k">>,
                     <<"r","e","m","a","r","k","'","s">>,
                     <<"n","o","t","e">>,
                     <<"n","o","t","e","s">>,
                     <<"c","o","m","m","e","n","t">>,
                     <<"c","o","m","m","e","n","t","s">>,
                     <<"d","e","s","c","r","i","p","t","i","o","n">>,
                     <<"d","e","s","c">>,
                     <<"r","m","k","s">> >>,
      karigar |-> << <<"k","a","r","i","g","a","r">>,
                     <<"a","r","t","i","s","a","n">>,
                     <<"w","o","r","k","e","r">>,
                     <<"c","r","a","f","t","s","m","a","n">>,
                     <<"m","a","k","e","r">> >>,
      name |-> << <<"n","a","m","e">>,
                  <<"p","r","o","d","u","c","t"," ","n","a","m","e">>,
                  <<"g","e","n","e","r","i","c">>,
                  <<"g","e","n","e","r","i","c"," ","n","a","m","e">>,
                  <<"i","t","e","m"," ","n","a","m","e">>,
                  <<"d","e","s","c","r","i","p","t","i","o","n">> >> ]

\* The header rows of one cell that reads as a specified alias of a column.
AliasRows(parser) ==
    UNION {{<<SpecifiedAliases[column][k]>> : k \in DOMAIN SpecifiedAliases[column]} :
              column \in Range(columnsOf(parser))}

Txt_OrderNoDot == <<"O","r","d","e","r"," ","N","o",".">>
Txt_DesignCode == <<"D","e","s","i","g","n"," ","C","o","d","e">>
Txt_NetWtSp    == <<"N","e","t"," ","W","t">>
Txt_QtyDot     == <<"Q","t","y",".">>
Txt_RemarkS    == <<"R","e","m","a","r","k","'","s">>
Txt_Item       == <<"I","t","e","m">>

\* Header rows of several cells: the documented example, rows in which two
\* cells match one column, a row with an empty cell and a row without a match.
WideRows ==
    { <<Txt_OrderNoDot, Txt_DesignCode, Txt_NetWtSp, Txt_Size, Txt_QtyDot, Txt_RemarkS>>,
      <<Txt_Item, Txt_Design, Txt_Karigar>>,
      <<Txt_Colour, Txt_DesignCode, Txt_Design, Txt_GenericName, Txt_Karigar>>,
      <<Null, Txt_Design, <<>>, Txt_Ratio>>,
      <<Txt_Colour, Txt_Date>> }

HeaderRows(parser) == AliasRows(parser) \cup WideRows

HeaderInit ==
    /\ pc = "header"
    /\ headerParser \in Parsers
    /\ headerCells \in HeaderRows(headerParser)
    /\ resolvedColumns = Idle
    /\ EarlierIdle
    /\ FileIdle /\ StoreIdle /\ BackendIdle /\ RemoveIdle /\ UploadIdle

\* The parser looks for each of its columns in the row.
ResolveHeader ==
    /\ pc = "header"
    /\ resolvedColumns' = [column \in Range(columnsOf(headerParser)) |->
                              findIndex(headerParser, headerCells, column)]
    /\ pc' = "resolved"
    /\ UNCHANGED <<earlierVars, headerParser, headerCells, fileVars, storeVars,
                   backendVars, removeVars, uploadVars>>

HeaderNext == ResolveHeader

SpecHeaders == HeaderInit /\ [][HeaderNext]_vars

HeaderResolved == pc = "resolved"

\* The columns for which the specification lists the text of the cell.
SpecifiedColumns(parser, cell) ==
    {column \in Range(columnsOf(parser)) :
        \E k \in DOMAIN SpecifiedAliases[column] : SpecifiedAliases[column][k] = cell}

\* C21: a header cell whose text is an alias the specification lists for a
\* logical column is matched to that column by every parser that reads the
\* column: the order parser, and the Excel and PDF paths of the mapping parser.
C21_SpecifiedAliasesHonoured ==
    (HeaderResolved /\ Len(headerCells) = 1) =>
        \A column \in SpecifiedColumns(headerParser, headerCells[1]) :
            resolvedColumns[column] = 0

\* The cell at 1-based position i matches the column by the documented rule.
DocumentedMatch(cell, aliases) ==
    /\ normalizeHeader(StringOrEmpty(cell)) # <<>>
    /\ \E k \in DOMAIN aliases :
           \/ normalizeHeader(StringOrEmpty(cell)) = normalizeHeader(aliases[k])
           \/ includes(normalizeHeader(StringOrEmpty(cell)), normalizeHeader(aliases[k]))

\* The index the documented rule gives: the smallest matching one, or -1.
DocumentedIndex(cells, aliases) ==
    IF \E i \in DOMAIN cells : DocumentedMatch(cells[i], aliases)
      THEN (CHOOSE i \in DOMAIN cells :
               /\ DocumentedMatch(cells[i], aliases)
               /\ \A j \in DOMAIN cells : DocumentedMatch(cells[j], aliases) => i <= j) - 1
      ELSE -1

\* C22: a cell matches an alias list exactly when its normalised text is
\* non-empty and equals or contains a normalised alias; the order parser
\* takes for a column the smallest matching index, -1 when there is none; the
\* headers Order No., Design Code, Net Wt, Size, Qty., Remark's resolve the
\* six columns to 0..5.
C22_FirstMatchingCell ==
    (HeaderResolved /\ headerParser = "orders") =>
        /\ \A column \in Range(OrderFields) :
               resolvedColumns[column] = DocumentedIndex(headerCells, COLUMN_ALIASES[column])
        /\ headerCells = <<Txt_OrderNoDot, Txt_DesignCode, Txt_NetWtSp, Txt_Size,
                           Txt_QtyDot, Txt_RemarkS>>
               => \A c \in DOMAIN OrderFields : resolvedColumns[OrderFields[c]] = c - 1

\* The documented example has been resolved, and so has a row in which two
\* cells match the design column.
C22_Witness ==
    /\ HeaderResolved
    /\ headerParser = "orders"
    /\ headerCells = <<Txt_OrderNoDot, Txt_DesignCode, Txt_NetWtSp, Txt_Size,
                       Txt_QtyDot, Txt_RemarkS>>
    /\ resolvedColumns = [orderNo |-> 0, design |-> 1, weight |-> 2, size |-> 3,
                          quantity |-> 4, remarks |-> 5]


(***************************************************************************)
(* parseDailyOrders: the file type is detected before the file is read.    *)
(***************************************************************************)

\* String.prototype.endsWith
endsWith(s, suffix) ==
    /\ Len(s) >= Len(suffix)
    /\ SubSeq(s, Len(s) - Len(suffix) + 1, Len(s)) = suffix

Ext_csv  == <<".","c","s","v">>
Ext_xlsx == <<".","x","l","s","x">>
Ext_xls  == <<".","x","l","s">>

Mime_textCsv == <<"t","e","x","t","/","c","s","v">>
Mime_appCsv  == <<"a","p","p","l","i","c","a","t","i","o","n","/","c","s","v">>
Mime_xlsx    ==
    <<"a","p","p","l","i","c","a","t","i","o","n","/","v","n","d",".","o","p","e","n","x","m","l","f","o","r","m","a","t","s","-","o","f","f","i","c","e","d","o","c","u","m","e","n","t",".","s","p","r","e","a","d","s","h","e","e","t","m","l",".","s","h","e","e","t">>
Mime_xls     == <<"a","p","p","l","i","c","a","t","i","o","n","/","v","n","d",".","m","s","-","e","x","c","e","l">>

\* The second half of detectFileType: the MIME type alone.
fileTypeOfMime(type) ==
    IF type = Mime_textCsv \/ type = Mime_appCsv THEN "csv"
    ELSE IF type = Mime_xlsx THEN "xlsx"
    ELSE IF type = Mime_xls THEN "xls"
    ELSE "unsupported"

\* A variant of detectFileType that asks the MIME type first.
detectFileTypeMimeFirst(name, type) ==
    IF fileTypeOfMime(toLowerCase(type)) # "unsupported" THEN fileTypeOfMime(toLowerCase(type))
    ELSE IF endsWith(toLowerCase(name), Ext_csv) THEN "csv"
    ELSE IF endsWith(toLowerCase(name), Ext_xlsx) THEN "xlsx"
    ELSE IF endsWith(toLowerCase(name), Ext_xls) THEN "xls"
    ELSE "unsupported"

detectFileType(name, type) ==
    IF endsWith(toLowerCase(name), Ext_csv) THEN "csv"
    ELSE IF endsWith(toLowerCase(name), Ext_xlsx) THEN "xlsx"
    ELSE IF endsWith(toLowerCase(name), Ext_xls) THEN "xls"
    ELSE fileTypeOfMime(toLowerCase(type))

\* parseDailyOrders up to the start of the read: the promise is rejected for
\* an unsupported type, and a FileReader reads the file otherwise.
startRead(type) ==
    IF type = "unsupported"
      THEN [rejected |-> "Unsupported file format", reading |-> "nothing"]
      ELSE [rejected |-> "no",
            reading  |-> IF type = "csv" THEN "readAsText" ELSE "readAsArrayBuffer"]

\* File names, and the MIME types a browser reports (lower case, or none).
FileNames ==
    { <<"a",".","c","s","v">>,
      <<"A",".","C","S","V">>,
      <<"b",".","x","l","s","x">>,
      <<"b",".","X","l","S","x">>,
      <<"c",".","x","l","s">>,
      <<"c",".","X","L","S">>,
      <<"c",".","t","x","t">>,
      <<"c","s","v">>,
      <<".","c","s","v">>,
      <<"d",".","c","s","v",".","t","x","t">>,
      <<"e",".","p","d","f">>,
      <<"x","l","s","x">>,
      <<>> }

MimeTypes ==
    { <<>>,
      <<"t","e","x","t","/","c","s","v">>,
      <<"a","p","p","l","i","c","a","t","i","o","n","/","c","s","v">>,
      <<"a","p","p","l","i","c","a","t","i","o","n","/","v","n","d",".","o","p","e","n","x","m","l","f","o","r","m","a","t","s","-","o","f","f","i","c","e","d","o","c","u","m","e","n","t",".","s","p","r","e","a","d","s","h","e","e","t","m","l",".","s","h","e","e","t">>,
      <<"a","p","p","l","i","c","a","t","i","o","n","/","v","n","d",".","m","s","-","e","x","c","e","l">>,
      <<"a","p","p","l","i","c","a","t","i","o","n","/","p","d","f">>,
      <<"t","e","x","t","/","p","l","a","i","n">> }

FileInit ==
    /\ pc = "file"
    /\ fileName \in FileNames
    /\ mimeType \in MimeTypes
    /\ fileType = Idle /\ fileReader = Idle
    /\ EarlierIdle
    /\ HeadersIdle /\ StoreIdle /\ BackendIdle /\ RemoveIdle /\ UploadIdle

DetectFileType ==
    /\ pc = "file"
    /\ \E type \in {detectFileType(fileName, mimeType)} :
           /\ fileType' = type
           /\ fileReader' = startRead(type)
    /\ pc' = "detected"
    /\ UNCHANGED <<earlierVars, headerVars, fileName, mimeType, storeVars, backendVars,
                   removeVars, uploadVars>>

FileNext == DetectFileType

SpecFileType == FileInit /\ [][FileNext]_vars

Detected == pc = "detected"

\* The type the last characters of the name stand for, whatever their case.
ExtensionType(name) ==
    IF \E n \in 4..Len(name) : toLowerCase(SubSeq(name, Len(name) - 3, Len(name))) = Ext_csv
      THEN "csv"
    ELSE IF \E n \in 5..Len(name) : toLowerCase(SubSeq(name, Len(name) - 4, Len(name))) = Ext_xlsx
      THEN "xlsx"
    ELSE IF \E n \in 4..Len(name) : toLowerCase(SubSeq(name, Len(name) - 3, Len(name))) = Ext_xls
      THEN "xls"
    ELSE "none"

RecognisedMime(type) == type \in {Mime_textCsv, Mime_appCsv, Mime_xlsx, Mime_xls}

\* C23: the upload is rejected as an unsupported format, with no read
\* started, exactly when the name ends in none of .csv, .xlsx, .xls (in any
\* case) and the MIME type is none of the four recognised ones; a recognised
\* extension decides the type whatever the MIME type says.
C23_UnsupportedFormatFailsFast ==
    Detected =>
        /\ fileReader.rejected = "Unsupported file format"
               <=> (ExtensionType(fileName) = "none" /\ ~RecognisedMime(mimeType))
        /\ fileReader.rejected = "Unsupported file format" <=> fileReader.reading = "nothing"
        /\ ExtensionType(fileName) # "none" => fileType = ExtensionType(fileName)

\* Rejected: a text file of type text/plain.  (The witness of the fast
\* failure; the precedence is seen on A.CSV of type application/vnd.ms-excel.)
C23_Witness ==
    /\ Detected
    /\ fileName = <<"c",".","t","x","t">>
    /\ mimeType = <<"t","e","x","t","/","p","l","a","i","n">>
    /\ fileType = "unsupported"
    /\ fileReader = [rejected |-> "Unsupported file format", reading |-> "nothing"]


(***************************************************************************)
(* backend: the persistent karigar mapping workbook                        *)
(* saveKarigarMappingWorkbook / getKarigarMappingWorkbook                  *)
(*                                                                         *)
(* A Motoko Map is a sequence of <<key, value>> pairs in the order of its  *)
(* keys, one pair per key.                                                 *)
(***************************************************************************)

\* The most calls made to the canister in one run.
MaxStoreCalls == 3

\* The texts of this section in the order of Text.compare.
TextsInOrder == <<"S1", "S2", "a", "b", "x", "y">>

TextRank(text) == CHOOSE i \in DOMAIN TextsInOrder : TextsInOrder[i] = text

\* Map.add: the pair replaces the pair of its key or goes to its place.
RECURSIVE mapAdd(_, _, _)
mapAdd(map, key, value) ==
    IF map = <<>> THEN << <<key, value>> >>
    ELSE IF Head(map)[1] = key THEN << <<key, value>> >> \o Tail(map)
    ELSE IF TextRank(key) < TextRank(Head(map)[1]) THEN << <<key, value>> >> \o map
    ELSE <<Head(map)>> \o mapAdd(Tail(map), key, value)

\* Map.fromIter(entries.values())
RECURSIVE mapFromIter(_, _)
mapFromIter(map, entries) ==
    IF entries = <<>> THEN map
    ELSE mapFromIter(mapAdd(map, Head(entries)[1], Head(entries)[2]), Tail(entries))

\* for ((sheetName, entries) in workbook.values()) map.add(sheetName, Map.fromIter(entries))
RECURSIVE addSheets(_, _)
addSheets(map, sheets) ==
    IF sheets = <<>> THEN map
    ELSE addSheets(mapAdd(map, Head(sheets)[1], mapFromIter(<<>>, Head(sheets)[2])),
                   Tail(sheets))

\* A variant of the save that does not clear the stored workbook.
saveWithoutClear(stored, sheets) == addSheets(stored, sheets)

\* saveKarigarMappingWorkbook for an admin: the new workbook is built,
\* the stored one is cleared and the new sheets are added.
saveKarigarMappingWorkbook(stored, sheets) == addSheets(<<>>, addSheets(<<>>, sheets))

\* getKarigarMappingWorkbook: toArray of the workbook and of each sheet.
getKarigarMappingWorkbook(stored) == stored

\* AccessControl.isAdmin
isAdmin(caller) == caller = "admin"

Callers == {"admin", "user"}

\* The workbooks the callers save: sheets with names and keys apart, a sheet
\* with a key twice, a workbook with a sheet name twice, and no sheet.
SaveArguments ==
    { <<>>,
      << <<"S1", << <<"a", "x">> >> >> >>,
      << <<"S2", << <<"b", "x">>, <<"a", "y">> >> >>, <<"S1", << <<"b", "y">> >> >> >>,
      << <<"S2", << <<"a", "x">>, <<"a", "y">> >> >> >>,
      << <<"S1", << <<"a", "x">> >> >>, <<"S1", << <<"b", "x">> >> >> >> }

StoreInit ==
    /\ pc = "canister"
    /\ karigarMappingWorkbook = <<>>
    /\ lastSavedWorkbook = <<>>
    /\ fetchedWorkbook = <<>>
    /\ storeCalls = <<>>
    /\ EarlierIdle
    /\ HeadersIdle /\ FileIdle /\ BackendIdle /\ RemoveIdle /\ UploadIdle

\* A call of saveKarigarMappingWorkbook: a trap rolls the call back.
SaveWorkbook ==
    /\ pc = "canister"
    /\ Len(storeCalls) < MaxStoreCalls
    /\ \E caller \in Callers, sheets \in SaveArguments :
           IF isAdmin(caller)
             THEN /\ karigarMappingWorkbook' = saveKarigarMappingWorkbook(karigarMappingWorkbook, sheets)
                  /\ lastSavedWorkbook' = <<sheets>>
                  /\ storeCalls' = Append(storeCalls, "saved")
             ELSE /\ storeCalls' = Append(storeCalls, "trapped")
                  /\ UNCHANGED <<karigarMappingWorkbook, lastSavedWorkbook>>
    /\ UNCHANGED <<pc, earlierVars, headerVars, fileVars, fetchedWorkbook, backendVars,
                   removeVars, uploadVars>>

\* A call of getKarigarMappingWorkbook by anyone.
FetchWorkbook ==
    /\ pc = "canister"
    /\ Len(storeCalls) < MaxStoreCalls
    /\ fetchedWorkbook' = <<getKarigarMappingWorkbook(karigarMappingWorkbook)>>
    /\ storeCalls' = Append(storeCalls, "fetched")
    /\ UNCHANGED <<pc, earlierVars, headerVars, fileVars, karigarMappingWorkbook,
                   lastSavedWorkbook, backendVars, removeVars, uploadVars>>

StoreNext == SaveWorkbook \/ FetchWorkbook

SpecStore == StoreInit /\ [][StoreNext]_vars

\* The position of the last pair of a sequence of pairs that has this key.
LastWith(pairs, key) ==
    CHOOSE i \in DOMAIN pairs :
        /\ pairs[i][1] = key
        /\ \A j \in DOMAIN pairs : pairs[j][1] = key => j <= i

FirstsOf(pairs) == {pairs[i][1] : i \in DOMAIN pairs}

\* The sheets and entries a saved argument stands for: a name or a key given
\* twice stands for its last occurrence.
ContentOf(sheets) ==
    {<<name, {<<key, sheets[LastWith(sheets, name)][2][LastWith(sheets[LastWith(sheets, name)][2], key)][2]>> :
                  key \in FirstsOf(sheets[LastWith(sheets, name)][2])}>> :
         name \in FirstsOf(sheets)}

\* The sheets and entries of an answer of getKarigarMappingWorkbook.
AnswerContent(answer) == {<<answer[i][1], Range(answer[i][2])>> : i \in DOMAIN answer}

NoRepeats(pairs) == Cardinality(FirstsOf(pairs)) = Len(pairs)

\* C24: the workbook the canister answers with holds exactly the sheets and
\* entries of the last workbook an admin saved, each once, and nothing when no
\* admin ever saved; saves by other callers never change it.
C24_SaveIsFullReplacement ==
    pc = "canister" =>
        /\ NoRepeats(getKarigarMappingWorkbook(karigarMappingWorkbook))
        /\ \A i \in DOMAIN karigarMappingWorkbook : NoRepeats(karigarMappingWorkbook[i][2])
        /\ AnswerContent(getKarigarMappingWorkbook(karigarMappingWorkbook))
               = (IF lastSavedWorkbook = <<>> THEN {} ELSE ContentOf(lastSavedWorkbook[1]))

\* Two sheets were saved, then one sheet, then the workbook was fetched: the
\* answer is the one sheet.
C24_Witness ==
    /\ pc = "canister"
    /\ storeCalls = <<"saved", "saved", "fetched">>
    /\ lastSavedWorkbook = << << <<"S1", << <<"a", "x">> >> >> >> >>
    /\ fetchedWorkbook = << << <<"S1", << <<"a", "x">> >> >> >> >>

\* A caller who is no admin saved after an admin: the call trapped and the
\* admin's workbook is still stored.
C24_WitnessTrap ==
    /\ pc = "canister"
    /\ storeCalls = <<"saved", "trapped", "fetched">>
    /\ fetchedWorkbook # << <<>> >>
    /\ fetchedWorkbook = <<karigarMappingWorkbook>>


(***************************************************************************)
(* hooks/useQueries useRemoveOrders against the backend                    *)
(* storeDailyOrders / assignKarigar / getDailyOrders /                     *)
(* getKarigarAssignments for one date.                                     *)
(*                                                                         *)
(* dailyOrders is the list stored for the date; karigarAssignments is the  *)
(* date's map from order id to assignment.  Every await of the mutation is *)
(* a step of its own, so that the backend is seen between the calls, and   *)
(* every call may fail.                                                    *)
(***************************************************************************)

\* The order ids of this section in the order of Text.compare.
OrderIdsInOrder == <<"o1", "o2", "o3">>

OrderIdUniverse == Range(OrderIdsInOrder)

StoredOrder(id) == [orderNo |-> id, design |-> Txt_AB_12]

\* The sub-lists of a list.
RECURSIVE SubLists(_)
SubLists(list) ==
    IF list = <<>> THEN {<<>>}
    ELSE SubLists(Tail(list)) \cup {<<Head(list)>> \o rest : rest \in SubLists(Tail(list))}

Factories == {Null, <<"F">>}

AssignmentChoices == [karigar : {Txt_Foo, Txt_Bar}, factory : Factories]

\* getKarigarAssignments: the values of the date's map in the order of its keys.
RECURSIVE assignmentValues(_, _)
assignmentValues(assignments, ids) ==
    IF ids = <<>> THEN <<>>
    ELSE (IF Head(ids) \in DOMAIN assignments
            THEN <<[orderId  |-> Head(ids),
                    karigar  |-> assignments[Head(ids)].karigar,
                    factory  |-> assignments[Head(ids)].factory]>>
            ELSE <<>>)
         \o assignmentValues(assignments, Tail(ids))

getKarigarAssignments(assignments) == assignmentValues(assignments, OrderIdsInOrder)

\* getDailyOrders: the stored list, or [] when none is stored.
getDailyOrders(stored) == stored

\* storeDailyOrders: dailyOrders.add(date, List.fromArray(orders)).
storeDailyOrders(stored, newOrders) == newOrders

\* assignKarigar: an assignment is added or replaced for every given id.
assignKarigar(assignments, ids, karigar, factory) ==
    [id \in DOMAIN assignments \cup Range(ids) |->
        IF id \in Range(ids) THEN [karigar |-> karigar, factory |-> factory]
        ELSE assignments[id]]

\* currentOrders.filter((o) => !orderIds.includes(o.orderNo))
filterRemaining(currentOrders, ids) ==
    SelectSeq(currentOrders, LAMBDA o : o.orderNo \notin Range(ids))

\* `${assignment.karigar}|${assignment.factory || ''}`
assignmentKey(assignment) == assignment.karigar \o <<"|">> \o OrEmpty(assignment.factory)

\* key.split('|')[0]
karigarOfKey(key) ==
    IF \E i \in DOMAIN key : key[i] = "|"
      THEN SubSeq(key, 1, (CHOOSE i \in DOMAIN key : key[i] = "|" /\ \A j \in 1..(i - 1) : key[j] # "|") - 1)
      ELSE key

\* currentAssignments.forEach: the assignments of remaining orders by karigar and factory.
RECURSIVE groupAssignments(_, _, _)
groupAssignments(groups, currentAssignments, remainingOrderIds) ==
    IF currentAssignments = <<>> THEN groups
    ELSE IF Head(currentAssignments).orderId \notin remainingOrderIds
      THEN groupAssignments(groups, Tail(currentAssignments), remainingOrderIds)
    ELSE IF MapHas(groups, assignmentKey(Head(currentAssignments)))
      THEN groupAssignments(
               MapSet(groups, assignmentKey(Head(currentAssignments)),
                      [orderIds |-> Append(MapGet(groups, assignmentKey(Head(currentAssignments))).orderIds,
                                           Head(currentAssignments).orderId),
                       factory  |-> MapGet(groups, assignmentKey(Head(currentAssignments))).factory]),
               Tail(currentAssignments), remainingOrderIds)
    ELSE groupAssignments(
               MapSet(groups, assignmentKey(Head(currentAssignments)),
                      [orderIds |-> <<Head(currentAssignments).orderId>>,
                       factory  |-> IF Falsy(Head(currentAssignments).factory) THEN Null
                                    ELSE Head(currentAssignments).factory]),
               Tail(currentAssignments), remainingOrderIds)

NoLocals == [currentOrders |-> <<>>, currentAssignments |-> <<>>, remainingOrders |-> <<>>,
             assignmentsByKarigar |-> <<>>]

\* Orders are stored for the date, some of them are assigned, and the user
\* removes a selection.
RemoveInit ==
    /\ pc = "remove:getDailyOrders"
    /\ \E ids \in SubLists(OrderIdsInOrder) :
           /\ dailyOrders = [i \in DOMAIN ids |-> StoredOrder(ids[i])]
           /\ \E assigned \in SUBSET Range(ids) :
                  karigarAssignments \in [assigned -> AssignmentChoices]
    /\ orderIds \in SubLists(OrderIdsInOrder) \ {<<>>}
    /\ removeLocals = NoLocals
    /\ initialOrders = dailyOrders
    /\ EarlierIdle
    /\ HeadersIdle /\ FileIdle /\ StoreIdle /\ UploadIdle

otherThanRemove == <<earlierVars, headerVars, fileVars, storeVars, uploadVars, orderIds, initialOrders>>

\* const currentOrders = await actor.getDailyOrders(date)
RemoveGetOrders ==
    /\ pc = "remove:getDailyOrders"
    /\ removeLocals' = [removeLocals EXCEPT !.currentOrders = getDailyOrders(dailyOrders)]
    /\ pc' = "remove:getKarigarAssignments"
    /\ UNCHANGED <<otherThanRemove, backendVars>>

\* const currentAssignments = await actor.getKarigarAssignments(date), then
\* the filter
RemoveGetAssignments ==
    /\ pc = "remove:getKarigarAssignments"
    /\ removeLocals' = [removeLocals EXCEPT
           !.currentAssignments = getKarigarAssignments(karigarAssignments),
           !.remainingOrders = filterRemaining(removeLocals.currentOrders, orderIds)]
    /\ pc' = "remove:storeRemaining"
    /\ UNCHANGED <<otherThanRemove, backendVars>>

\* await actor.storeDailyOrders(date, remainingOrders), then the grouping
RemoveStoreRemaining ==
    /\ pc = "remove:storeRemaining"
    /\ dailyOrders' = storeDailyOrders(dailyOrders, removeLocals.remainingOrders)
    /\ removeLocals' = [removeLocals EXCEPT
           !.assignmentsByKarigar =
               groupAssignments(<<>>, removeLocals.currentAssignments,
                                {removeLocals.remainingOrders[i].orderNo :
                                     i \in DOMAIN removeLocals.remainingOrders})]
    /\ pc' = "remove:storeEmpty"
    /\ UNCHANGED <<otherThanRemove, karigarAssignments>>

\* await actor.storeDailyOrders(date, [])
RemoveStoreEmpty ==
    /\ pc = "remove:storeEmpty"
    /\ dailyOrders' = storeDailyOrders(dailyOrders, <<>>)
    /\ pc' = "remove:storeAgain"
    /\ UNCHANGED <<otherThanRemove, karigarAssignments, removeLocals>>

\* await actor.storeDailyOrders(date, remainingOrders)
RemoveStoreAgain ==
    /\ pc = "remove:storeAgain"
    /\ dailyOrders' = storeDailyOrders(dailyOrders, removeLocals.remainingOrders)
    /\ pc' = IF removeLocals.assignmentsByKarigar = <<>> THEN "removed" ELSE "remove:assignKarigar"
    /\ UNCHANGED <<otherThanRemove, karigarAssignments, removeLocals>>

\* One pass of the loop: await actor.assignKarigar(date, ids, karigar, factory)
RemoveAssignKarigar ==
    /\ pc = "remove:assignKarigar"
    /\ karigarAssignments' =
           assignKarigar(karigarAssignments,
                         Head(removeLocals.assignmentsByKarigar).value.orderIds,
                         karigarOfKey(Head(removeLocals.assignmentsByKarigar).key),
                         Head(removeLocals.assignmentsByKarigar).value.factory)
    /\ removeLocals' = [removeLocals EXCEPT !.assignmentsByKarigar = Tail(@)]
    /\ pc' = IF Tail(removeLocals.assignmentsByKarigar) = <<>> THEN "removed"
             ELSE "remove:assignKarigar"
    /\ UNCHANGED <<otherThanRemove, dailyOrders>>

RemoveSteps ==
    {"remove:getDailyOrders", "remove:getKarigarAssignments", "remove:storeRemaining",
     "remove:storeEmpty", "remove:storeAgain", "remove:assignKarigar"}

\* The awaited call is rejected: the mutation ends with an error and the
\* backend keeps what the earlier calls stored.
RemoveCallFails ==
    /\ pc \in RemoveSteps
    /\ pc' = "remove:failed"
    /\ UNCHANGED <<otherThanRemove, backendVars, removeLocals>>

RemoveNext ==
    \/ RemoveGetOrders
    \/ RemoveGetAssignments
    \/ RemoveStoreRemaining
    \/ RemoveStoreEmpty
    \/ RemoveStoreAgain
    \/ RemoveAssignKarigar
    \/ RemoveCallFails

SpecRemove == RemoveInit /\ [][RemoveNext]_vars

\* The orders that were stored when the mutation began and are not removed.
NotRemoved == SelectSeq(initialOrders, LAMBDA o : o.orderNo \notin Range(orderIds))

\* C25: when useRemoveOrders has completed, the stored orders are the earlier
\* ones without the removed ones, and every stored assignment is of an order
\* that remains.
C25_RemovedOrdersLeaveNoAssignment ==
    pc = "removed" =>
        /\ getDailyOrders(dailyOrders) = NotRemoved
        /\ \A id \in DOMAIN karigarAssignments :
               id \in {NotRemoved[i].orderNo : i \in DOMAIN NotRemoved}

\* C30: from the start of useRemoveOrders to its end or failure, every order
\* that is not being removed is in the list stored for the date.
C30_NonRemovedOrdersAlwaysStored ==
    pc \in RemoveSteps \cup {"remove:failed", "removed"} =>
        \A i \in DOMAIN NotRemoved :
            \E j \in DOMAIN dailyOrders : dailyOrders[j] = NotRemoved[i]


(***************************************************************************)
(* The header row of a mapping sheet.                                      *)
(***************************************************************************)

\* The row has a cell for each of the three required columns.
HasAllColumns(row) ==
    \A column \in {"design", "karigar", "name"} :
        \E c \in DOMAIN row : cellIsHeader(row[c], column)

\* The rows of a sheet, among its first ten, that have all the columns.
HeaderCandidates(grid) == {r \in DOMAIN grid : r <= 10 /\ HasAllColumns(grid[r])}

C26_WitnessTenthRow ==
    /\ Settled
    /\ Len(workbook) = 1
    /\ workbook[1].rows = MappingTitleRows(9)
                              \o << <<Txt_Design, Txt_GenericName, Txt_Karigar>>,
                                    <<Txt_AB_12, Txt_Ring, Txt_Foo>> >>
    /\ HeaderOf(1).headerRowIndex = 9
    /\ Len(parseResults[1].entries) = 1

\* The labels are spread over the first two rows: the sheet is rejected.
C26_WitnessSplitHeader ==
    /\ Settled
    /\ Len(workbook) = 1
    /\ workbook[1].rows \in SplitHeaderGrids
    /\ parseResults[1].error.kind = "missing-columns"


(***************************************************************************)
(* Rows of one sheet with the same design key.                             *)
(***************************************************************************)

\* The data rows of sheet i that pass every test of the data-row loop.
ValidRows(i) ==
    {r \in MappingDataRows(i) :
        /\ Len(workbook[i].rows[r]) > 0
        /\ DesignOf(i, r) # <<>>
        /\ KarigarOf(i, r) # <<>>
        /\ GenericNameOf(i, r) # <<>>
        /\ ~looksLikeNumericRatio(GenericNameOf(i, r))
        /\ ~includes(normalizeHeader(DesignOf(i, r)), <<"d","e","s","i","g","n">>)
        /\ ~includes(normalizeHeader(KarigarOf(i, r)), <<"k","a","r","i","g","a","r">>)
        /\ normalizeDesignCode(DesignOf(i, r)) # <<>>}

\* The last valid row of sheet i with the design key of row r.
LastRowOfKey(i, r) ==
    CHOOSE last \in ValidRows(i) :
        /\ normalizeDesignCode(DesignOf(i, last)) = normalizeDesignCode(DesignOf(i, r))
        /\ \A other \in ValidRows(i) :
               normalizeDesignCode(DesignOf(i, other)) = normalizeDesignCode(DesignOf(i, r))
                   => other <= last

\* C28: a parsed sheet holds one entry for each design key of its valid rows
\* and no other, and the entry of a key is the one of the last valid row with
\* that key.
C28_LastRowWinsWithinSheet ==
    Settled =>
        \A i \in SheetsWithHeader :
            /\ Range(MapKeys(parseResults[i].entries))
                   = {normalizeDesignCode(DesignOf(i, r)) : r \in ValidRows(i)}
            /\ Len(parseResults[i].entries)
                   = Cardinality({normalizeDesignCode(DesignOf(i, r)) : r \in ValidRows(i)})
            /\ \A r \in ValidRows(i) :
                   MapGet(parseResults[i].entries, normalizeDesignCode(DesignOf(i, r)))
                       = [design           |-> DesignOf(i, LastRowOfKey(i, r)),
                          designNormalized |-> normalizeDesignCode(DesignOf(i, r)),
                          karigar          |-> KarigarOf(i, LastRowOfKey(i, r)),
                          genericName      |-> GenericNameOf(i, LastRowOfKey(i, r))]

\* AB-12 of Foo comes before ab-12 of Bar: the sheet has one entry, Bar's.
C28_Witness ==
    /\ Settled
    /\ Len(workbook) = 1
    /\ workbook[1].rows = << <<Txt_Design, Txt_GenericName, Txt_Karigar>>,
                             <<Txt_AB_12, Txt_Ring, Txt_Foo>>,
                             <<Txt_ab_12, Txt_Chain, Txt_Bar>> >>
    /\ ValidRows(1) = {2, 3}
    /\ Len(parseResults[1].entries) = 1
    /\ parseResults[1].entries[1].value.karigar = Txt_Bar
    /\ parseResults[1].entries[1].value.design = Txt_ab_12


(***************************************************************************)
(* The counts of the enrichment diagnostics.                               *)
(***************************************************************************)

\* C29: the diagnostics count as matched exactly the orders whose design key
\* is a key of the lookup, matched and unmapped orders add up to all orders,
\* and the lookup never holds the empty key, so that an order without a
\* design is never matched.
C29_MatchedCountsLookupKeys ==
    Enriched =>
        /\ diagnostics.matchedOrders = Cardinality(OrdersWithKey)
        /\ diagnostics.matchedOrders + diagnostics.unmappedOrders = diagnostics.totalOrders
        /\ diagnostics.totalOrders = Len(orders)
        /\ ~MapHas(mappingLookup, <<>>)
        /\ \A i \in DOMAIN orders :
               normalizeDesignCode(orders[i].design) = <<>> => Falsy(enrichedOrders[i].karigar)


(***************************************************************************)
(* features/daily-orders/DailyOrdersPage handleOrderListUpload             *)
(* with parseDailyOrders and useStoreDailyOrders as the promises it awaits *)
(***************************************************************************)

\* The most change events of the file input in one run.
MaxUploads == 2

Msg_NotReadyUpload ==
    <<"B","a","c","k","e","n","d"," ","n","o","t"," ","r","e","a","d","y","."," ","P","l","e",
      "a","s","e"," ","w","a","i","t"," ","a"," ","m","o","m","e","n","t"," ","a","n","d"," ",
      "t","r","y"," ","a","g","a","i","n",".">>

Msg_MissingCritical ==
    <<"M","i","s","s","i","n","g"," ","c","r","i","t","i","c","a","l"," ","c","o","l","u","m",
      "n","s",":"," ","D","e","s","i","g","n">>

Msg_Unsupported ==
    <<"U","n","s","u","p","p","o","r","t","e","d"," ","f","i","l","e"," ","f","o","r","m","a",
      "t","."," ","P","l","e","a","s","e"," ","u","p","l","o","a","d"," ",".","c","s","v",",",
      " ",".","x","l","s","x",","," ","o","r"," ",".","x","l","s"," ","f","i","l","e","s",".">>

Msg_ActorMissing ==
    <<"B","a","c","k","e","n","d"," ","n","o","t"," ","r","e","a","d","y","."," ","P","l","e",
      "a","s","e"," ","w","a","i","t"," ","a","n","d"," ","t","r","y"," ","a","g","a","i","n",
      ".">>

Msg_Trapped ==
    <<"C","a","n","i","s","t","e","r"," ","t","r","a","p","p","e","d",":"," ","U","n","a","u",
      "t","h","o","r","i","z","e","d",":"," ","O","n","l","y"," ","a","d","m","i","n"," ","c",
      "a","n"," ","u","p","l","o","a","d"," ","o","r","d","e","r","s">>

Msg_FailedToFetch ==
    <<"F","a","i","l","e","d"," ","t","o"," ","f","e","t","c","h">>

Msg_Connecting ==
    <<"C","o","n","n","e","c","t","i","n","g"," ","t","o"," ","b","a","c","k","e","n","d",".",
      ".","."," ","P","l","e","a","s","e"," ","w","a","i","t"," ","a"," ","m","o","m","e","n",
      "t"," ","a","n","d"," ","t","r","y"," ","a","g","a","i","n",".">>

Msg_ConnectFailed ==
    <<"F","a","i","l","e","d"," ","t","o"," ","c","o","n","n","e","c","t"," ","t","o"," ","b",
      "a","c","k","e","n","d","."," ","P","l","e","a","s","e"," ","c","h","e","c","k"," ","y",
      "o","u","r"," ","c","o","n","n","e","c","t","i","o","n"," ","a","n","d"," ","t","r","y",
      " ","a","g","a","i","n",".">>

Msg_Network ==
    <<"N","e","t","w","o","r","k"," ","e","r","r","o","r","."," ","P","l","e","a","s","e"," ",
      "c","h","e","c","k"," ","y","o","u","r"," ","i","n","t","e","r","n","e","t"," ","c","o",
      "n","n","e","c","t","i","o","n"," ","a","n","d"," ","t","r","y"," ","a","g","a","i","n",
      ".">>

Msg_BackendFailed ==
    <<"B","a","c","k","e","n","d"," ","o","p","e","r","a","t","i","o","n"," ","f","a","i","l",
      "e","d","."," ","P","l","e","a","s","e"," ","t","r","y"," ","a","g","a","i","n",".">>

Msg_Unknown ==
    <<"A","n"," ","u","n","k","n","o","w","n"," ","e","r","r","o","r"," ","o","c","c","u","r",
      "r","e","d">>

Word_ActorNotAvailable ==
    <<"A","c","t","o","r"," ","n","o","t"," ","a","v","a","i","l","a","b","l","e">>

Word_AgentCreationFailed ==
    <<"A","g","e","n","t"," ","c","r","e","a","t","i","o","n"," ","f","a","i","l","e","d">>

Word_FailedToCreateActor ==
    <<"F","a","i","l","e","d"," ","t","o"," ","c","r","e","a","t","e"," ","a","c","t","o","r">>

Word_fetch ==
    <<"f","e","t","c","h">>

Word_network ==
    <<"n","e","t","w","o","r","k">>

Word_parse ==
    <<"p","a","r","s","e">>

Word_CannotParseFile ==
    <<"C","a","n","n","o","t"," ","p","a","r","s","e"," ","f","i","l","e">>

Word_MissingCritical ==
    <<"M","i","s","s","i","n","g"," ","c","r","i","t","i","c","a","l"," ","c","o","l","u","m",
      "n","s">>

Word_FailedToReadFile ==
    <<"F","a","i","l","e","d"," ","t","o"," ","r","e","a","d"," ","f","i","l","e">>

Word_UnsupportedFormat ==
    <<"U","n","s","u","p","p","o","r","t","e","d"," ","f","i","l","e"," ","f","o","r","m","a",
      "t">>

Word_trap ==
    <<"t","r","a","p">>

Word_reject ==
    <<"r","e","j","e","c","t">>

\* utils/errors getUserFacingError for an Error with this message.
getUserFacingError(errorMessage) ==
    IF includes(errorMessage, Word_ActorNotAvailable) THEN Msg_Connecting
    ELSE IF \/ includes(errorMessage, Word_AgentCreationFailed)
            \/ includes(errorMessage, Word_FailedToCreateActor) THEN Msg_ConnectFailed
    ELSE IF includes(errorMessage, Word_fetch) \/ includes(errorMessage, Word_network)
      THEN Msg_Network
    ELSE IF \/ includes(errorMessage, Word_parse)
            \/ includes(errorMessage, Word_CannotParseFile)
            \/ includes(errorMessage, Word_MissingCritical) THEN errorMessage
    ELSE IF \/ includes(errorMessage, Word_FailedToReadFile)
            \/ includes(errorMessage, Word_UnsupportedFormat) THEN errorMessage
    ELSE IF includes(errorMessage, Word_trap) \/ includes(errorMessage, Word_reject)
      THEN Msg_BackendFailed
    ELSE errorMessage

\* A ParsedOrder: weight, size, quantity and remarks are optional.
ParsedOrder(no, d, w) ==
    [orderNo |-> no, design |-> d, weight |-> w, size |-> Null, quantity |-> Null,
     remarks |-> Null]

\* The fields of a ParsedOrder as a DailyOrder: o.weight || '' and so on.
toBackendOrder(o) ==
    [orderNo |-> o.orderNo, design |-> o.design, weight |-> OrEmpty(o.weight),
     size |-> OrEmpty(o.size), quantity |-> OrEmpty(o.quantity),
     remarks |-> OrEmpty(o.remarks)]

\* result.orders.map((o) => ({...}))
backendOrders(parsed) == [i \in DOMAIN parsed |-> toBackendOrder(parsed[i])]

\* What parseDailyOrders settles with for the files of the model.
ParseOutcomes ==
    { [kind |-> "resolved", orders |-> <<ParsedOrder(<<"1">>, Txt_AB_12, Null)>>,
       warnings |-> <<>>, message |-> <<>>],
      [kind |-> "resolved",
       orders |-> <<ParsedOrder(<<"1">>, Txt_AB_12, <<"2">>), ParsedOrder(<<"2">>, Txt_X1, Null)>>,
       warnings |-> <<"missing-optional-columns">>, message |-> <<>>],
      [kind |-> "rejected", orders |-> <<>>, warnings |-> <<>>, message |-> Msg_MissingCritical],
      [kind |-> "rejected", orders |-> <<>>, warnings |-> <<>>, message |-> Msg_Unsupported] }

\* What storeDailyOrders.mutateAsync settles with: the call is made and
\* answered, there is no actor, the canister traps, or the call does not
\* reach the canister.
SaveOutcomes == {<<"stored">>, Msg_ActorMissing, Msg_Trapped, Msg_FailedToFetch}

NoRun == [runs |-> 0, file |-> "none", parsed |-> <<>>, sent |-> FALSE]

\* The page is mounted for a date with no stored orders.
UploadInit ==
    /\ pc = "upload:idle"
    /\ isReady \in BOOLEAN
    /\ uploadFile = NoRun
    /\ uploadedOrders = <<>>
    /\ parseWarnings = <<>>
    /\ parseError = Null
    /\ saveError = Null
    /\ isUploading = FALSE
    /\ dailyOrders = <<>>
    /\ karigarAssignments = Idle
    /\ EarlierIdle
    /\ HeadersIdle /\ FileIdle /\ StoreIdle /\ RemoveIdle

otherThanUpload == <<earlierVars, headerVars, fileVars, storeVars, removeVars, karigarAssignments>>

\* useActorWithStatus: the actor is fetched again, or becomes available.
ActorStatusChanges ==
    /\ pc = "upload:idle"
    /\ isReady' = ~isReady
    /\ UNCHANGED <<pc, otherThanUpload, dailyOrders, uploadFile, uploadedOrders, parseWarnings,
                   parseError, saveError, isUploading>>

\* The change event without a file: if (!file) return.
UploadWithoutFile ==
    /\ pc = "upload:idle"
    /\ uploadFile.runs < MaxUploads
    /\ uploadFile' = [uploadFile EXCEPT !.runs = @ + 1]
    /\ UNCHANGED <<pc, otherThanUpload, dailyOrders, isReady, uploadedOrders, parseWarnings,
                   parseError, saveError, isUploading>>

\* The change event with a file, up to the await of parseDailyOrders.
UploadStart ==
    /\ pc = "upload:idle"
    /\ uploadFile.runs < MaxUploads
    /\ uploadFile' = [runs |-> uploadFile.runs + 1, file |-> "chosen", parsed |-> <<>>,
                      sent |-> FALSE]
    /\ IF ~isReady
         THEN /\ parseError' = Msg_NotReadyUpload
              /\ UNCHANGED <<pc, isUploading, saveError, parseWarnings>>
         ELSE /\ isUploading' = TRUE
              /\ parseError' = Null
              /\ saveError' = Null
              /\ parseWarnings' = <<>>
              /\ pc' = "upload:parsing"
    /\ UNCHANGED <<otherThanUpload, dailyOrders, isReady, uploadedOrders>>

\* parseDailyOrders settles: the orders and warnings are set and the save
\* begins, or the catch and finally blocks run.
UploadParseSettles ==
    /\ pc = "upload:parsing"
    /\ \E result \in ParseOutcomes :
           IF result.kind = "resolved"
             THEN /\ uploadedOrders' = result.orders
                  /\ parseWarnings' = result.warnings
                  /\ uploadFile' = [uploadFile EXCEPT !.parsed = <<result.orders>>]
                  /\ pc' = "upload:saving"
                  /\ UNCHANGED <<parseError, isUploading>>
             ELSE /\ parseError' = getUserFacingError(result.message)
                  /\ uploadedOrders' = <<>>
                  /\ parseWarnings' = <<>>
                  /\ isUploading' = FALSE
                  /\ pc' = "upload:idle"
                  /\ UNCHANGED uploadFile
    /\ UNCHANGED <<otherThanUpload, dailyOrders, isReady, saveError>>

\* storeDailyOrders.mutateAsync settles, then the finally block runs.
UploadSaveSettles ==
    /\ pc = "upload:saving"
    /\ \E answer \in SaveOutcomes :
           IF answer = <<"stored">>
             THEN /\ dailyOrders' = storeDailyOrders(dailyOrders, backendOrders(uploadedOrders))
                  /\ uploadFile' = [uploadFile EXCEPT !.sent = TRUE]
                  /\ UNCHANGED saveError
             ELSE /\ saveError' = getUserFacingError(answer)
                  /\ UNCHANGED <<dailyOrders, uploadFile>>
    /\ isUploading' = FALSE
    /\ pc' = "upload:idle"
    /\ UNCHANGED <<otherThanUpload, isReady, uploadedOrders, parseWarnings, parseError>>

UploadNext ==
    \/ ActorStatusChanges
    \/ UploadWithoutFile
    \/ UploadStart
    \/ UploadParseSettles
    \/ UploadSaveSettles

SpecUpload == UploadInit /\ [][UploadNext]_vars

\* A run of the handler for a chosen file has ended.
UploadEnded == pc = "upload:idle" /\ uploadFile.file = "chosen"

ParseFailed ==
    /\ parseError # Null
    /\ uploadedOrders = <<>> /\ parseWarnings = <<>>
    /\ ~uploadFile.sent

SaveFailed ==
    /\ uploadFile.parsed # <<>>
    /\ uploadedOrders = uploadFile.parsed[1]
    /\ saveError # Null
    /\ parseError = Null

FullSuccess ==
    /\ uploadFile.parsed # <<>>
    /\ parseError = Null /\ saveError = Null
    /\ uploadFile.sent
    /\ dailyOrders = [i \in DOMAIN uploadFile.parsed[1] |-> toBackendOrder(uploadFile.parsed[1][i])]

\* C27: when a run of the upload handler has ended, isUploading is false and
\* the page is in exactly one of three outcomes: the parse failed, the parse
\* succeeded and the save failed, or the orders were parsed and stored.
C27_UploadEndsInOneOfThreeOutcomes ==
    UploadEnded =>
        /\ isUploading = FALSE
        /\ \/ ParseFailed /\ ~SaveFailed /\ ~FullSuccess
           \/ SaveFailed /\ ~ParseFailed /\ ~FullSuccess
           \/ FullSuccess /\ ~ParseFailed /\ ~SaveFailed

====
